---------------------------- MODULE Spec2Model ----------------------------
(***************************************************************************)
(* RA/QA KPI dashboard: period-bucketed counts, commitment ratios and the  *)
(* weighted composite score.                                               *)
(*                                                                         *)
(* Dates are day numbers of a model calendar whose months all have         *)
(* DAYS_PER_MONTH days; day 0 is 1 January of the year of incorporation.   *)
(* A Period of frequency M, Q or Y is the ordinal of the month, quarter or *)
(* year.  A DataFrame whose rows are only filtered, grouped and counted is *)
(* a set of row records; a Series is a function from its index labels to   *)
(* its values.  A float is a record: a reduced fraction, NaN or inf.       *)
(***************************************************************************)
EXTENDS Integers, Sequences, FiniteSets, TLC

\* ------------------------------------------------------------- bounds
\* Largest number of rows of a table handed to a page.
MaxRows == 2
\* Latest month (ordinal) in which datetime.now() may fall.
MaxToday == 12
\* Largest number of periods of a plotted series.
MaxPlotLen == 5
\* the largest number of histories in the changelog of a Jira issue
MaxHistories == 3
\* the largest number of items in one history
MaxItems == 2

\* ---------------------------------------------------- python values
NaT == 0 - 1
None == [kind |-> "None"]

RECURSIVE GCD(_, _)
GCD(a, b) == IF b = 0 THEN a ELSE GCD(b, a % b)

NaN == [k |-> "nan", n |-> 0, d |-> 1]
inf == [k |-> "inf", n |-> 0, d |-> 1]
\* the float n/d (d > 0, n >= 0) as a reduced fraction
Float(n, d) ==
    LET g == GCD(n, d) IN [k |-> "num", n |-> n \div g, d |-> d \div g]
isna(v) == v.k = "nan"

\* float / float
truediv(a, b) ==
    IF a.k = "nan" \/ b.k = "nan" THEN NaN
    ELSE IF a.k = "inf" THEN (IF b.k = "inf" THEN NaN ELSE inf)
    ELSE IF b.k = "inf" THEN Float(0, 1)
    ELSE IF b.n = 0 THEN (IF a.n = 0 THEN NaN ELSE inf)
    ELSE Float(a.n * b.d, a.d * b.n)
\* float * float
mul(a, b) ==
    IF a.k = "nan" \/ b.k = "nan" THEN NaN
    ELSE IF a.k = "inf" \/ b.k = "inf"
         THEN (IF (a.k = "num" /\ a.n = 0) \/ (b.k = "num" /\ b.n = 0) THEN NaN ELSE inf)
    ELSE Float(a.n * b.n, a.d * b.d)
\* float + float
add(a, b) ==
    IF a.k = "nan" \/ b.k = "nan" THEN NaN
    ELSE IF a.k = "inf" \/ b.k = "inf" THEN inf
    ELSE Float(a.n * b.d + b.n * a.d, a.d * b.d)
\* Series.replace(0, np.nan) on one cell
replace_0_nan(v) == IF v.k = "num" /\ v.n = 0 THEN NaN ELSE v
\* Series.fillna(0) on one cell
fillna_0(v) == IF isna(v) THEN Float(0, 1) ELSE v
\* a <= b for two finite floats
le(a, b) == a.n * b.d <= b.n * a.d

\* ------------------------------------------------------ period index
DAYS_PER_MONTH == 30
INTERVALS == <<"Month", "Quarter", "Year">>
Intervals == {INTERVALS[i] : i \in DOMAIN INTERVALS}
\* RAD_DATE = '2016-10-26': day 25 of month 9 of the model calendar
RAD_DATE == 9 * DAYS_PER_MONTH + 25

\* a truncation that puts a missing date into the period of day 0
to_period_of_missing(date, interval) ==
    IF date = NaT THEN 0
    ELSE IF interval = "Month" THEN date \div DAYS_PER_MONTH
    ELSE IF interval = "Quarter" THEN (date \div DAYS_PER_MONTH) \div 3
    ELSE (date \div DAYS_PER_MONTH) \div 12
\* Timestamp.to_period(freq) / Series.dt.to_period(freq): NaT stays NaT
to_period(date, interval) ==
    IF date = NaT THEN NaT
    ELSE IF interval = "Month" THEN date \div DAYS_PER_MONTH
    ELSE IF interval = "Quarter" THEN (date \div DAYS_PER_MONTH) \div 3
    ELSE (date \div DAYS_PER_MONTH) \div 12
\* Series.astype('period[Q]') etc. of a month label
month_to_period(month, interval) ==
    IF interval = "Month" THEN month
    ELSE IF interval = "Quarter" THEN month \div 3
    ELSE month \div 12

\* a range that stops before its end
period_range_open(start, end) ==
    [i \in 1..(IF end > start THEN end - start ELSE 0) |-> start + i - 1]
\* pd.period_range(start, end): the ascending sequence start..end
period_range(start, end) ==
    [i \in 1..(IF end >= start THEN end - start + 1 ELSE 0) |-> start + i - 1]

\* now is the month of datetime.now() (its strftime('%Y-%m'))
compute_all_periods(nowMonth) ==
    [interval_ \in Intervals |->
        period_range(to_period(RAD_DATE, interval_),
                     month_to_period(nowMonth, interval_))]

Range(seq) == {seq[i] : i \in DOMAIN seq}

\* --------------------------------------------------- pandas helpers
\* a grouping that marks the keys that occur
groupby_any(df, col) ==
    [key \in {r[col] : r \in df} \ {NaT} |-> 1]
\* df.groupby(col).size(): one label per non-null key, the number of rows
groupby_size(df, col) ==
    [key \in {r[col] : r \in df} \ {NaT} |-> Cardinality({r \in df : r[col] = key})]
\* the first label of a sorted index
index_0(series) == CHOOSE p \in DOMAIN series : \A q \in DOMAIN series : p <= q
\* a reindex that keeps only the labels the series already has
reindex_observed(series, index, fill) ==
    [p \in Range(index) \cap DOMAIN series |-> series[p]]
\* Series.reindex(index, fill_value=fill)
reindex(series, index, fill) ==
    [p \in Range(index) |-> IF p \in DOMAIN series THEN series[p] ELSE fill]
\* an integer Series as a float Series
astype_float(a) == [p \in DOMAIN a |-> Float(a[p], 1)]
\* elementwise  a / b * 100  of two Series: the indexes are aligned, a label missing
\* on either side gives NaN
pct_of(a, b) ==
    [p \in DOMAIN a \cup DOMAIN b |->
        IF p \in DOMAIN a /\ p \in DOMAIN b
        THEN mul(truediv(a[p], b[p]), Float(100, 1))
        ELSE NaN]


\* ------------------------------------------------------------- state
VARIABLES
    page,                          \* the page script Streamlit runs
    pc,                            \* "import", "run", then "done" or "raised"
    now,                           \* month of datetime.now()
    ALL_PERIODS,                   \* utils.constants.ALL_PERIODS, set at import
    df_capas,                      \* pages/CAPAs.py global
    filtered_df_capas,             \* pages/CAPAs.py global, set by the page body
    df_complaints,                 \* pages/Complaints.py global
    filtered_df_complaints_device, \* pages/Complaints.py global, set by the page body
    df_aes,                        \* pages/AEs.py global, set by the page body
    df_audits,                     \* pages/Audits.py global
    dfs_audits,                    \* pages/Audits.py global
    filtered_dfs_audits,           \* pages/Audits.py global, set by the page body
    df_training_mo,                \* pages/Training.py global
    dfs_training,                  \* pages/Training.py global
    session_state,                 \* st.session_state: the slider value of each interval
    settings,                      \* get_settings(): the PageState periods of the page
    result                         \* the last call: function, arguments, returned value

vars == <<page, pc, now, ALL_PERIODS, df_capas, filtered_df_capas, df_complaints,
          filtered_df_complaints_device, df_aes, df_audits, dfs_audits,
          filtered_dfs_audits, df_training_mo, dfs_training, session_state, settings,
          result>>

undefined == [kind |-> "undefined"]
DataFrame(rows) == [kind |-> "DataFrame", rows |-> rows]
str(msg) == [kind |-> "str", msg |-> msg]
Series(s) == [kind |-> "Series", s |-> s]
raise(exc) == [kind |-> "raise", exc |-> exc]
dict(d) == [kind |-> "dict", d |-> d]
isinstance_str(x) == x.kind = "str"

\* the sets of at most n rows drawn from a universe of rows
RECURSIVE TablesOf(_, _)
TablesOf(universe, n) ==
    IF n = 0 THEN {{}}
    ELSE LET smaller == TablesOf(universe, n - 1)
         IN smaller \cup {t \cup {r} : t \in smaller, r \in universe}

\* str.replace('Date', interval_) on the date column names
replace_Date(col, interval_) ==
    CASE col = "Date of Submission" ->
            (CASE interval_ = "Month" -> "Month of Submission"
               [] interval_ = "Quarter" -> "Quarter of Submission"
               [] interval_ = "Year" -> "Year of Submission")
      [] col = "Due Date" ->
            (CASE interval_ = "Month" -> "Due Month"
               [] interval_ = "Quarter" -> "Due Quarter"
               [] interval_ = "Year" -> "Due Year")
      [] col = "Complaint Created Date" ->
            (CASE interval_ = "Month" -> "Complaint Created Month"
               [] interval_ = "Quarter" -> "Complaint Created Quarter"
               [] interval_ = "Year" -> "Complaint Created Year")
      [] col = "Completed Date" ->
            (CASE interval_ = "Month" -> "Completed Month"
               [] interval_ = "Quarter" -> "Completed Quarter"
               [] interval_ = "Year" -> "Completed Year")
      [] col = "Date Received" ->
            (CASE interval_ = "Month" -> "Month Received"
               [] interval_ = "Quarter" -> "Quarter Received"
               [] interval_ = "Year" -> "Year Received")

\* read_data.add_period_cols: one period column per date column and interval
add_period_cols(df, cols) ==
    LET names == {replace_Date(c, i) : c \in cols, i \in Intervals}
        src(name) == CHOOSE ci \in cols \X Intervals : replace_Date(ci[1], ci[2]) = name
    IN {[name \in DOMAIN r \cup names |->
            IF name \in names
            THEN to_period(r[src(name)[1]], src(name)[2])
            ELSE r[name]] : r \in df}

\* --------------------------------------------------------------- CAPAs
\* DATE_COLS['CAPAs'], the columns the aggregations read
DATE_COLS_CAPAs == {"Due Date", "Date of Submission"}

\* rows a Matrix query may deliver (after compute_status): submission before the
\* epoch month, on RAD_DATE, a month later, after the latest now, or missing
CapaSubmissionDates ==
    {NaT, RAD_DATE - DAYS_PER_MONTH, RAD_DATE, RAD_DATE + DAYS_PER_MONTH,
     (MaxToday + 1) * DAYS_PER_MONTH}
CapaRow(status, sub, due, evs) ==
    [c \in {"Status", "Date of Submission", "Due Date", "Effectiveness Verification Status"} |->
        CASE c = "Status" -> status
          [] c = "Date of Submission" -> sub
          [] c = "Due Date" -> due
          [] c = "Effectiveness Verification Status" -> evs]
CapaRows ==
    {CapaRow("Closed", sub, de[1], de[2]) :
        sub \in CapaSubmissionDates,
        de \in {<<NaT, "Fail">>, <<RAD_DATE, "Pass">>, <<RAD_DATE, "Fail">>}}
    \cup {CapaRow("Open", sub, RAD_DATE, "Pass") : sub \in {NaT, RAD_DATE}}

\* read_capa_data: the error string of get_matrix_items, or the table with
\* its period columns
read_capa_data(matrix_items) ==
    IF isinstance_str(matrix_items) THEN matrix_items
    ELSE DataFrame(add_period_cols(matrix_items.rows, DATE_COLS_CAPAs))

\* interval + ' of Submission'
of_Submission(interval) ==
    CASE interval = "Month" -> "Month of Submission"
      [] interval = "Quarter" -> "Quarter of Submission"
      [] interval = "Year" -> "Year of Submission"

\* the closed CAPAs of the selection whenever one has been made
closed_capas_selected(filter_by_selection) ==
    {r \in (IF filtered_df_capas # undefined THEN filtered_df_capas.rows ELSE df_capas.rows) :
        r["Status"] = "Closed"}
\* df_capas_ of the CAPA aggregations: the closed CAPAs of the chosen table
closed_capas(filter_by_selection) ==
    {r \in (IF filter_by_selection THEN filtered_df_capas.rows ELSE df_capas.rows) :
        r["Status"] = "Closed"}

ct_by_submission_date(interval, filter_by_selection) ==
    IF isinstance_str(df_capas) THEN None
    ELSE Series(reindex(groupby_size(closed_capas(filter_by_selection), of_Submission(interval)),
                        ALL_PERIODS[interval], 0))

\* a comparison that lets a missing due date pass
date_le_open_end(a, b) == a # NaT /\ (b = NaT \/ a <= b)
\* Timestamp <= Timestamp: False when either side is NaT
date_le(a, b) == a # NaT /\ b # NaT /\ a <= b

\* the rows counted as submitted on time
on_time_capas_any_status(filter_by_selection) ==
    {r \in (IF filter_by_selection THEN filtered_df_capas.rows ELSE df_capas.rows) :
        date_le(r["Date of Submission"], r["Due Date"])}
on_time_capas(filter_by_selection) ==
    {r \in closed_capas(filter_by_selection) :
        date_le(r["Date of Submission"], r["Due Date"])}

compute_capa_commitment(interval, filter_by_selection) ==
    IF isinstance_str(df_capas) THEN None
    ELSE LET submitted == ct_by_submission_date(interval, filter_by_selection)
         IN IF submitted = None \/ DOMAIN submitted.s = {} THEN None
            ELSE LET ct_on_time ==
                        reindex(groupby_size(on_time_capas(filter_by_selection),
                                             of_Submission(interval)),
                                ALL_PERIODS[interval], 0)
                 IN Series(pct_of(astype_float(ct_on_time), astype_float(submitted.s)))

compute_capa_effectiveness(interval, filter_by_selection) ==
    IF isinstance_str(df_capas) THEN None
    ELSE LET submitted == ct_by_submission_date(interval, filter_by_selection)
             ct_passed ==
                reindex(groupby_size({r \in closed_capas(filter_by_selection) :
                                        r["Effectiveness Verification Status"] = "Pass"},
                                     of_Submission(interval)),
                        ALL_PERIODS[interval], 0)
         IN Series(pct_of(astype_float(ct_passed), astype_float(submitted.s)))

\* render_breakdown_fixed on the CAPAs page: the rows whose value is among the
\* options selected for the fixed category
render_breakdown_fixed(df, selected) ==
    DataFrame({r \in df.rows : r["Effectiveness Verification Status"] \in selected})
get_unique(df, col) == {r[col] : r \in df.rows}

Call(fn, interval, value) == [fn |-> fn, interval |-> interval, value |-> value]

\* ---------------------------------------------------------- Complaints
\* DATE_COLS['Complaint'], the columns the aggregations read
DATE_COLS_Complaint == {"Complaint Created Date", "Completed Date"}
\* a null category value
NA == "<NA>"

ComplaintRow(created, completed, status, device) ==
    [c \in {"Complaint Created Date", "Completed Date", "Complaint Status", "Device Type"} |->
        CASE c = "Complaint Created Date" -> created
          [] c = "Completed Date" -> completed
          [] c = "Complaint Status" -> status
          [] c = "Device Type" -> device]
\* records Salesforce may deliver: closed before the epoch month, on RAD_DATE or a
\* month later, after 60 or 61 days, with or without a status; one still open; one
\* created a month after the epoch and closed within a month
ComplaintRows ==
    {ComplaintRow(completed - open, completed, status, "ClearCheck") :
        completed \in {RAD_DATE - DAYS_PER_MONTH, RAD_DATE, RAD_DATE + DAYS_PER_MONTH},
        open \in {60, 61}, status \in {"Closed", NA}}
    \cup {ComplaintRow(RAD_DATE, RAD_DATE + 60, "Closed", NA),
          ComplaintRow(RAD_DATE, NaT, "Open", "ClearCheck"),
          ComplaintRow(RAD_DATE + DAYS_PER_MONTH, RAD_DATE + 2 * DAYS_PER_MONTH,
                       "Closed", "ClearCheck")}

\* (a - b).dt.days: NaN when either date is NaT
days_between(a, b) == IF a = NaT \/ b = NaT THEN NaN ELSE Float(a - b, 1)

\* read_complaints: the error string the page is prepared for, or the table with a
\* null 'Device Type' filled by 'N/A', with '# Days Open' and with its period columns
read_complaints(records) ==
    IF isinstance_str(records) THEN records
    ELSE DataFrame(add_period_cols(
            {[c \in DOMAIN r \cup {"# Days Open"} |->
                CASE c = "# Days Open" ->
                        days_between(r["Completed Date"], r["Complaint Created Date"])
                  [] c = "Device Type" -> IF r[c] = NA THEN "N/A" ELSE r[c]
                  [] OTHER -> r[c]] : r \in records.rows},
            DATE_COLS_Complaint))

\* an unstack that keeps the null category as a column
groupby_size_unstack_null(df, col, cat) ==
    LET rows == {r \in df : r[col] # NaT}
        cats == {r[cat] : r \in rows}
    IN [p \in {r[col] : r \in rows} |->
          [c \in cats |->
              LET n == Cardinality({r \in rows : r[col] = p /\ r[cat] = c})
              IN IF n = 0 THEN NaN ELSE Float(n, 1)]]
\* df.groupby([col, cat]).size().unstack(): a row per observed period, a column per
\* observed category, NaN where the pair has no row
groupby_size_unstack(df, col, cat) ==
    LET rows == {r \in df : r[col] # NaT /\ r[cat] # NA}
        cats == {r[cat] : r \in rows}
    IN [p \in {r[col] : r \in rows} |->
          [c \in cats |->
              LET n == Cardinality({r \in rows : r[col] = p /\ r[cat] = c})
              IN IF n = 0 THEN NaN ELSE Float(n, 1)]]
\* DataFrame.reindex(index, fill_value=0): a new row holds 0 in every column
reindex_rows(table, index) ==
    LET cats == UNION {DOMAIN table[p] : p \in DOMAIN table}
    IN [p \in Range(index) |->
          IF p \in DOMAIN table THEN table[p] ELSE [c \in cats |-> Float(0, 1)]]

compute_complaint_cts ==
    [interval_ \in Intervals |->
        [col \in DATE_COLS_Complaint |->
            LET period_col == replace_Date(col, interval_)
                total_cts == reindex(groupby_size(filtered_df_complaints_device.rows, period_col),
                                     ALL_PERIODS[interval_], 0)
                cts_by_status ==
                    reindex_rows(groupby_size_unstack(filtered_df_complaints_device.rows,
                                                      period_col, "Complaint Status"),
                                 ALL_PERIODS[interval_])
            IN <<total_cts, cts_by_status>>]]

\* a comparison that leaves the 60th day out
days_lt_60(v) == ~isna(v) /\ le(v, Float(59, 1))
\* df['# Days Open'] <= 60: False for NaN
days_le_60(v) == ~isna(v) /\ le(v, Float(60, 1))

compute_complaint_commitment(interval, filter_by_device) ==
    IF isinstance_str(df_complaints) THEN None
    ELSE LET df_complaints_ == IF filter_by_device THEN filtered_df_complaints_device.rows
                               ELSE df_complaints.rows
             cts_by_period == reindex(groupby_size(df_complaints_, replace_Date("Completed Date", interval)),
                                      ALL_PERIODS[interval], 0)
             cts_le60_by_period ==
                reindex(groupby_size({r \in df_complaints_ : days_le_60(r["# Days Open"])},
                                     replace_Date("Completed Date", interval)),
                        ALL_PERIODS[interval], 0)
         IN Series(pct_of(astype_float(cts_le60_by_period),
                          [p \in DOMAIN cts_by_period |->
                              replace_0_nan(Float(cts_by_period[p], 1))]))

\* ------------------------------------------------------- Adverse Events
AeRows ==
    {[c \in {"Date Received"} |-> d] :
        d \in {NaT, RAD_DATE - DAYS_PER_MONTH, RAD_DATE, RAD_DATE + 1,
               RAD_DATE + DAYS_PER_MONTH, (MaxToday + 1) * DAYS_PER_MONTH}}

\* read_aes: the error string of the API, or the table with its period columns
read_aes(res) ==
    IF isinstance_str(res) THEN res
    ELSE DataFrame(add_period_cols(res.rows, {"Date Received"}))

compute_ae_cts ==
    [interval_ \in DOMAIN ALL_PERIODS |->
        reindex(groupby_size(df_aes.rows, replace_Date("Date Received", interval_)),
                ALL_PERIODS[interval_], 0)]

\* --------------------------------------------------------------- Audits
\* the sum of a column over the rows of a table
RECURSIVE sum_col(_, _)
sum_col(rows, col) ==
    IF rows = {} THEN 0
    ELSE LET r == CHOOSE x \in rows : TRUE IN r[col] + sum_col(rows \ {r}, col)

AuditSheetRow(month, internal, external) ==
    [c \in {"Month", "# Planned Internal", "# Completed Internal",
            "# Planned External", "# Completed External"} |->
        CASE c = "Month" -> month
          [] c = "# Planned Internal" -> internal[1]
          [] c = "# Completed Internal" -> internal[2]
          [] c = "# Planned External" -> external[1]
          [] c = "# Completed External" -> external[2]]
\* the (planned, completed) numbers a month of the sheet may hold for one type
AuditCounts == {<<0, 5>>, <<4, 3>>, <<1, 2>>}
\* the months a sheet may list: the epoch month, the next one (same quarter), and the
\* first month of the next year
AuditMonths == {RAD_DATE \div DAYS_PER_MONTH, RAD_DATE \div DAYS_PER_MONTH + 1, 12}
AuditSheetRows ==
    {AuditSheetRow(m, i, e) : m \in AuditMonths, i \in AuditCounts, e \in AuditCounts}
\* a sheet lists each month once
UniqueBy(t, cols) == \A r1, r2 \in t : (\A c \in cols : r1[c] = r2[c]) => r1 = r2
AuditSheets(n) == {t \in TablesOf(AuditSheetRows, n) : UniqueBy(t, {"Month"})}

\* read_audits: the error string the page is prepared for, or one row per month and
\* type with the period columns of INTERVALS
read_audits(sheet) ==
    IF isinstance_str(sheet) THEN sheet
    ELSE DataFrame(
        {[c \in {"Month", "Type", "Planned", "Completed", "Quarter", "Year"} |->
            CASE c = "Month" -> r["Month"]
              [] c = "Type" -> type
              [] c = "Planned" -> r["# Planned " \o type]
              [] c = "Completed" -> r["# Completed " \o type]
              [] c = "Quarter" -> month_to_period(r["Month"], "Quarter")
              [] c = "Year" -> month_to_period(r["Month"], "Year")] :
            r \in sheet.rows, type \in {"Internal", "External"}})

\* df.groupby([interval_, 'Type'], as_index=False).sum(numeric_only=True)
audits_by(rows, interval_) ==
    {[c \in {interval_, "Type", "Planned", "Completed"} |->
        LET group == {r \in rows : r[interval_] = k[1] /\ r["Type"] = k[2]}
        IN CASE c = interval_ -> k[1]
             [] c = "Type" -> k[2]
             [] c = "Planned" -> sum_col(group, "Planned")
             [] c = "Completed" -> sum_col(group, "Completed")] :
        k \in {<<r[interval_], r["Type"]>> : r \in rows}}

\* compute_audits_by_qtr_yr: the tables by quarter and by year, and the monthly table
\* as the call leaves it (its Quarter and Year columns dropped in place); a str has
\* no groupby
compute_audits_by_qtr_yr(df_audits_mo) ==
    IF isinstance_str(df_audits_mo) THEN raise("AttributeError")
    ELSE [kind |-> "list",
          by_period |-> <<DataFrame(audits_by(df_audits_mo.rows, "Quarter")),
                          DataFrame(audits_by(df_audits_mo.rows, "Year"))>>,
          df_audits_mo |->
            DataFrame({[c \in DOMAIN r \ {"Quarter", "Year"} |-> r[c]] :
                          r \in df_audits_mo.rows})]

compute_audit_commitment(interval, filter_by_type) ==
    IF isinstance_str(dfs_audits) THEN None
    ELSE LET dfs_audits_ == IF ~filter_by_type THEN dfs_audits ELSE filtered_dfs_audits
             planned == {r \in dfs_audits_.d[interval].rows : r["Planned"] # 0}
             audits == [p \in {r[interval] : r \in planned} |->
                          [c \in {"Completed", "Planned"} |->
                              sum_col({r \in planned : r[interval] = p}, c)]]
         IN Series(pct_of([p \in DOMAIN audits |-> Float(audits[p]["Completed"], 1)],
                          [p \in DOMAIN audits |->
                              replace_0_nan(Float(audits[p]["Planned"], 1))]))

\* ------------------------------------------------------------- Training
Users == <<"Ann", "Bob">>
TrainingRow(month, user, completed) ==
    [c \in {"Month", "User", "# Trainings Completed", "# Trainings Completed on Time"} |->
        CASE c = "Month" -> month
          [] c = "User" -> user
          [] c = "# Trainings Completed" -> completed[1]
          [] c = "# Trainings Completed on Time" -> completed[2]]
\* (completed, completed on time) of one user in one month
TrainingCounts == {<<0, 0>>, <<2, 1>>, <<2, 2>>}
TrainingMonths == {RAD_DATE \div DAYS_PER_MONTH, RAD_DATE \div DAYS_PER_MONTH + 1, 12}
TrainingSheetRows ==
    {TrainingRow(m, Users[u], c) : m \in TrainingMonths, u \in DOMAIN Users, c \in TrainingCounts}
\* a sheet lists each user once per month
TrainingSheets(n) == {t \in TablesOf(TrainingSheetRows, n) : UniqueBy(t, {"Month", "User"})}

\* read_training_data: the error string of the sheet reader, or the table with its
\* period columns (the row order by Month and User is that of sort_key)
read_training_data(sheet) ==
    IF isinstance_str(sheet) THEN sheet
    ELSE DataFrame({[c \in DOMAIN r \cup {"Quarter", "Year"} |->
                        CASE c = "Quarter" -> month_to_period(r["Month"], "Quarter")
                          [] c = "Year" -> month_to_period(r["Month"], "Year")
                          [] OTHER -> r[c]] : r \in sheet.rows})

\* the position of a row in the table sorted by Month and User
user_no(user) == CHOOSE u \in DOMAIN Users : Users[u] = user
sort_key(r) == r["Month"] * (Len(Users) + 1) + user_no(r["User"])
\* the row before r, if any
shift(rows, r) ==
    {q \in rows : sort_key(q) < sort_key(r)
                  /\ \A x \in rows : sort_key(x) < sort_key(r) => sort_key(x) <= sort_key(q)}
\* the row starts a group: its period or its user differs from the row before
starts_group(rows, r, interval_) ==
    \A q \in shift(rows, r) : q[interval_] # r[interval_] \/ q["User"] # r["User"]
\* group.cumsum()
GroupID(rows, r, interval_) ==
    Cardinality({q \in rows : sort_key(q) <= sort_key(r) /\ starts_group(rows, q, interval_)})

\* get_training_by_qtr_yr: for Quarter and Year, the sums of each run of consecutive
\* rows of one user and period; "index" is the row label of the result
get_training_by_qtr_yr(df) ==
    [i \in 1..2 |->
        LET interval_ == <<"Quarter", "Year">>[i]
            rows == df.rows
        IN DataFrame(
            {[c \in {"index", interval_, "User", "# Trainings Completed",
                     "# Trainings Completed on Time"} |->
                LET group == {r \in rows : GroupID(rows, r, interval_) = g}
                    first == CHOOSE r \in group : TRUE
                IN CASE c = "index" -> g - 1
                     [] c = interval_ -> first[interval_]
                     [] c = "User" -> first["User"]
                     [] OTHER -> sum_col(group, c)] :
                g \in {GroupID(rows, r, interval_) : r \in rows}})]

\* compute_training_commitment(), with the default min_period and max_period
compute_training_commitment ==
    IF isinstance_str(dfs_training) THEN None
    ELSE IF dfs_training = None THEN raise("TypeError")
    ELSE dict([interval_ \in Intervals |->
            LET periods == ALL_PERIODS[interval_]
                rows == dfs_training.d[interval_].rows
                completed(p) == sum_col({r \in rows : r[interval_] = p}, "# Trainings Completed")
                on_time(p) ==
                    sum_col({r \in rows : r[interval_] = p}, "# Trainings Completed on Time")
                grouped == [p \in {r[interval_] : r \in rows} |->
                              mul(truediv(Float(on_time(p), 1),
                                          replace_0_nan(Float(completed(p), 1))),
                                  Float(100, 1))]
            IN [p \in Range(periods) |->
                   fillna_0(IF p \in DOMAIN grouped THEN grouped[p] ELSE NaN)]])

\* --------------------------------------------------------- RA_QA KPIs
\* the keys of COMMITMENT_WTS and of the commitments dict, in their order
Categories == <<"Audits", "CAPAs", "Complaints", "Training">>
COMMITMENT_WTS ==
    [category \in Range(Categories) |->
        CASE category = "Audits" -> Float(2, 10)
          [] category = "CAPAs" -> Float(25, 100)
          [] category = "Complaints" -> Float(35, 100)
          [] category = "Training" -> Float(2, 10)]

\* items_in_a_series, the string as the sequence of its pieces
RECURSIVE join(_, _)
join(sep, items) ==
    IF Len(items) = 0 THEN <<>>
    ELSE IF Len(items) = 1 THEN items
    ELSE <<items[1], sep>> \o join(sep, Tail(items))
items_in_a_series(items) ==
    IF Len(items) = 1 THEN <<items[1]>>
    ELSE IF Len(items) = 2 THEN <<items[1], " ", "and", " ", items[2]>>
    ELSE join(", ", SubSeq(items, 1, Len(items) - 1)) \o <<", ", "and", " ", items[Len(items)]>>

\* scalar + Series and Series + Series: the indexes are aligned, a label missing on
\* either side gives NaN
add_scalar(x, series) == [p \in DOMAIN series |-> add(x, series[p])]
\* an addition that takes a value missing on one side as 0
add_filled(a, b) ==
    [p \in DOMAIN a \cup DOMAIN b |->
        add(IF p \in DOMAIN a THEN fillna_0(a[p]) ELSE Float(0, 1),
            IF p \in DOMAIN b THEN fillna_0(b[p]) ELSE Float(0, 1))]
add_aligned(a, b) ==
    [p \in DOMAIN a \cup DOMAIN b |->
        IF p \in DOMAIN a /\ p \in DOMAIN b THEN add(a[p], b[p]) ELSE NaN]
mul_scalar(series, wt) == [p \in DOMAIN series |-> mul(series[p], wt)]

\* the loop over commitments.items(): min_period and min_period_category after the
\* first n categories
RECURSIVE latest_first_period(_, _)
latest_first_period(commitments, n) ==
    IF n = 0 THEN [min_period |-> NaT, min_period_category |-> "None"]
    ELSE LET before == latest_first_period(commitments, n - 1)
             commitment == commitments[Categories[n]]
         IN IF commitment.kind # "None"
               /\ (before.min_period_category = "None"
                   \/ index_0(commitment.s) > before.min_period)
            THEN [min_period |-> index_0(commitment.s),
                  min_period_category |-> Categories[n]]
            ELSE before

\* commitment = 1; commitment += commitments[cat] * wt for the first n categories
RECURSIVE weighted_sum(_, _)
weighted_sum(commitments, n) ==
    LET term == mul_scalar(commitments[Categories[n]].s, COMMITMENT_WTS[Categories[n]])
    IN IF n = 1 THEN add_scalar(Float(1, 1), term)
       ELSE add_aligned(weighted_sum(commitments, n - 1), term)

compute_commitment(interval) ==
    LET training == compute_training_commitment
    IN IF training.kind = "raise" THEN training
       ELSE IF training.kind = "None" THEN raise("TypeError")
       ELSE
        LET commitments ==
                [category \in Range(Categories) |->
                    CASE category = "Audits" -> compute_audit_commitment(interval, FALSE)
                      [] category = "CAPAs" -> compute_capa_commitment(interval, FALSE)
                      [] category = "Complaints" -> compute_complaint_commitment(interval, FALSE)
                      [] category = "Training" -> Series(training.d[interval])]
            no_data_for == SelectSeq(Categories, LAMBDA c : commitments[c].kind = "None")
        IN IF \E c \in Range(Categories) :
                 commitments[c].kind # "None" /\ DOMAIN commitments[c].s = {}
           THEN raise("IndexError")
           ELSE IF Len(no_data_for) > 0
           THEN str(<<"Cannot compute commitment because ">> \o items_in_a_series(no_data_for)
                    \o <<" data could not be retrieved.">>)
           ELSE LET latest == latest_first_period(commitments, Len(Categories))
                IN [kind |-> "tuple",
                    commitment |-> weighted_sum(commitments, Len(Categories)),
                    min_period |-> latest.min_period,
                    min_period_category |-> latest.min_period_category]

\* ------------------------------------------------------------ plotting
\* float - float, for finite floats
sub(a, b) == add(a, mul(Float(0 - 1, 1), b))
\* a > b: False when either side is NaN
gt(a, b) ==
    IF isna(a) \/ isna(b) THEN FALSE
    ELSE IF a.k = "-inf" THEN FALSE
    ELSE IF b.k = "-inf" THEN TRUE
    ELSE IF b.k = "inf" THEN FALSE
    ELSE IF a.k = "inf" THEN TRUE
    ELSE a.n * b.d > b.n * a.d
\* -float('inf')
neg_inf == [k |-> "-inf", n |-> 0, d |-> 1]
\* the builtin max(a, b): b only when b > a
py_max(a, b) == IF gt(b, a) THEN b ELSE a

\* series[start:end], a slice by label (both ends included)
loc_slice(series, start, end) ==
    [p \in {q \in DOMAIN series : start <= q /\ q <= end} |-> series[p]]
\* the values of a series in the order of its index
RECURSIVE values(_)
values(series) ==
    IF DOMAIN series = {} THEN <<>>
    ELSE LET first == index_0(series)
         IN <<series[first]>> \o values([p \in DOMAIN series \ {first} |-> series[p]])
\* a slice that keeps every position
keep_all(series) == series
\* series[1:] and series[:-1], slices by position
drop_first(series) ==
    IF DOMAIN series = {} THEN series
    ELSE [p \in DOMAIN series \ {index_0(series)} |-> series[p]]
drop_last(series) ==
    IF DOMAIN series = {} THEN series
    ELSE [p \in {q \in DOMAIN series : \E r \in DOMAIN series : r > q} |-> series[p]]
\* Series.max(), NaN skipped; NaN when nothing is left
RECURSIVE seq_max(_)
seq_max(vs) ==
    IF Len(vs) = 0 THEN NaN
    ELSE LET rest == seq_max(Tail(vs))
         IN IF isna(vs[1]) THEN rest
            ELSE IF isna(rest) THEN vs[1]
            ELSE py_max(rest, vs[1])
\* the sum of a sequence of floats
RECURSIVE seq_sum(_)
seq_sum(vs) == IF Len(vs) = 0 THEN Float(0, 1) ELSE add(vs[1], seq_sum(Tail(vs)))
\* np.mean: NaN for no values
mean(vs) == truediv(seq_sum(vs), Float(Len(vs), 1))

\* compute_trendline: the positions and values the line is fitted on
fit_all_points(y_values) == [i \in DOMAIN y_values |-> TRUE]
fit_points(y_values) == [i \in DOMAIN y_values |-> ~isna(y_values[i])]
\* x, y = period_nos[mask], y_values[mask]
masked(y_values, mask) ==
    LET keep == SelectSeq([i \in DOMAIN y_values |-> i], LAMBDA i : mask[i])
    IN [x |-> [j \in DOMAIN keep |-> keep[j] - 1],
        y |-> [j \in DOMAIN keep |-> y_values[keep[j]]]]
\* loss(params): the mean squared error of a * x + b on the fitted points
loss(params, pts) ==
    mean([j \in DOMAIN pts.x |->
            LET err == sub(pts.y[j], add(mul(params[1], Float(pts.x[j], 1)), params[2]))
            IN mul(err, err)])
\* the (a, b) pairs the solver is searched over
Params == {<<Float(a, 1), Float(b, 1)>> : a \in {0 - 1, 0, 1}, b \in {0 - 1, 0, 3}}
\* scipy.optimize.minimize(loss, constraints = b >= 0): res.x is a feasible point no
\* feasible point improves on; any feasible point when the loss is NaN
minimize(pts) ==
    LET feasible == {params \in Params : ~gt(Float(0, 1), params[2])}
        losses == [params \in feasible |-> loss(params, pts)]
    IN {params \in feasible : \A other \in feasible : ~gt(losses[params], losses[other])}
\* np.clip(v, clip_min, clip_max); a bound of None does not clip
clip(v, clip_min, clip_max) ==
    LET low == IF clip_min # None /\ gt(clip_min, v) THEN clip_min ELSE v
    IN IF clip_max # None /\ gt(low, clip_max) THEN clip_max ELSE low
\* offsets that stop at the last fitted period
to_pred_no_after(n, pred_before, pred_after) ==
    [i \in 1..(pred_before + n) |-> i - 1 - pred_before]
\* the period offsets predicted for
to_pred(n, pred_before, pred_after) ==
    [i \in 1..(pred_before + n + pred_after) |-> i - 1 - pred_before]
\* compute_trendline: the predictions, one array for each (a, b) the solver may return
compute_trendline(y_values, pred_before, pred_after, clip_min, clip_max) ==
    LET offsets == to_pred(Len(y_values), pred_before, pred_after)
    IN {[res_x |-> res_x,
         y_pred |-> [i \in DOMAIN offsets |->
                        clip(add(mul(res_x[1], Float(offsets[i], 1)), res_x[2]),
                             clip_min, clip_max)]] :
            res_x \in minimize(masked(y_values, fit_points(y_values)))}

\* a rolling mean that averages whatever the window holds
rolling_mean_partial(data) ==
    [p \in DOMAIN data |->
        mean(SelectSeq([i \in 1..3 |-> IF p - 3 + i \in DOMAIN data THEN data[p - 3 + i] ELSE NaN],
                       LAMBDA v : ~isna(v)))]
\* data.rolling(window=3, min_periods=3).mean(): over the labels of the series, NaN
\* unless the label and the two before it all hold a value
rolling_mean(data) ==
    [p \in DOMAIN data |->
        IF \A q \in {p - 2, p - 1, p} : q \in DOMAIN data /\ ~isna(data[q])
        THEN mean(<<data[p - 2], data[p - 1], data[p]>>)
        ELSE NaN]
\* Series.dropna()
dropna(series) == [p \in {q \in DOMAIN series : ~isna(series[q])} |-> series[p]]

\* the arguments of a plot_bar call: the series, the display window, the extent of the
\* data, which messages are given, the flags, and the toggles of the sidebar
PlotArgs(data, start, end, min_period, max_period, kwargs, toggles) ==
    [data |-> data, start |-> start, end |-> end, min_period |-> min_period,
     max_period |-> max_period, kwargs |-> kwargs, toggles |-> toggles]

\* plot_bar: what the call puts on the axes, one figure for each result the solver
\* may return when a trendline is fitted
plot_bar(args) ==
    LET all_periods_all == period_range(args.min_period, args.max_period)
        reindexed == reindex(args.data, all_periods_all, NaN)
        data == IF "missing_as_zero" \in args.kwargs
                THEN [p \in DOMAIN reindexed |-> fillna_0(reindexed[p])]
                ELSE reindexed
        filtered_data == loc_slice(data, args.start, args.end)
        show_data == "data" \in args.toggles
        show_trendline == "trendline" \in args.toggles
        show_rolling_avg == "rolling_avg" \in args.toggles
        is_pct == "is_pct" \in args.kwargs
        nothing == [kind |-> "fig", text |-> "", bars |-> None, y_values |-> None,
                    pred_before |-> 0, pred_after |-> 0, res_x |-> None, y_pred |-> None,
                    rolling_avg |-> None, y_lim |-> neg_inf]
    IN IF (\A p \in DOMAIN filtered_data : filtered_data[p] = Float(0, 1))
          \/ (\A p \in DOMAIN filtered_data : isna(filtered_data[p]))
       THEN {[nothing EXCEPT !.text = "No data"]}
       ELSE IF ~show_data /\ ~show_trendline /\ ~show_rolling_avg
       THEN {[nothing EXCEPT !.text = "Toggle on in the sidebar to plot!"]}
       ELSE
        LET filtered_bar_data == [p \in DOMAIN filtered_data |-> fillna_0(filtered_data[p])]
            y_lim_bars == IF show_data
                          THEN py_max(neg_inf, seq_max(values(filtered_bar_data)))
                          ELSE neg_inf
            \* linear trendline
            exclude_first == "min_period_msg" \in args.kwargs /\ args.start = args.min_period
            exclude_last == "max_period_msg" \in args.kwargs /\ args.end = args.max_period
            after_first == IF exclude_first THEN drop_first(filtered_data) ELSE filtered_data
            y_values == IF exclude_last THEN drop_last(after_first) ELSE after_first
            pred_before == IF exclude_first THEN 1 ELSE 0
            pred_after == IF exclude_last THEN 1 ELSE 0
            fitted == show_trendline /\ Cardinality(DOMAIN y_values) > 2
            trendlines ==
                IF fitted
                THEN compute_trendline(values(y_values), pred_before, pred_after,
                                       IF is_pct THEN Float(0, 1) ELSE None,
                                       IF is_pct THEN Float(100, 1) ELSE None)
                ELSE {None}
            y_lim_trend(trend) ==
                IF fitted THEN py_max(y_lim_bars, seq_max(trend.y_pred)) ELSE y_lim_bars
            \* three-period rolling average
            from_start == dropna([p \in {q \in DOMAIN data : q >= args.start} |->
                                     rolling_mean(data)[p]])
            rolling_avg == IF args.end = args.max_period
                           THEN loc_slice(from_start, args.min_period, args.end - 1)
                           ELSE loc_slice(from_start, args.min_period, args.end)
            drawn == show_rolling_avg /\ DOMAIN rolling_avg # {}
            y_lim_rolling(trend) ==
                IF drawn THEN py_max(y_lim_trend(trend), seq_max(values(rolling_avg)))
                ELSE y_lim_trend(trend)
        IN {[kind |-> "fig", text |-> "",
             bars |-> IF show_data THEN Series(filtered_bar_data) ELSE None,
             y_values |-> IF show_trendline THEN Series(y_values) ELSE None,
             pred_before |-> IF show_trendline THEN pred_before ELSE 0,
             pred_after |-> IF show_trendline THEN pred_after ELSE 0,
             res_x |-> IF fitted THEN [kind |-> "tuple", x |-> trend.res_x] ELSE None,
             y_pred |-> IF fitted THEN [kind |-> "list", v |-> trend.y_pred] ELSE None,
             rolling_avg |-> IF drawn THEN Series(rolling_avg) ELSE None,
             y_lim |-> IF is_pct THEN Float(100, 1) ELSE y_lim_rolling(trend)] :
                trend \in trendlines}

\* ----------------------------------------------------- development tickets
\* pd.isna(issue['Start Date']) etc.: a date that was never set is NaT
\* stop_checking_history(issue)
stop_checking_history(issue) ==
    /\ issue["Start Date"] # NaT
    /\ (issue["Status"] # "Done" \/ issue["Start Date"] # NaT)

\* for item in history.items: ... from item number i on
RECURSIVE for_item(_, _, _)
for_item(issue_dict, history, i) ==
    IF i > Len(history.items) \/ stop_checking_history(issue_dict) THEN issue_dict
    ELSE LET item == history.items[i]
             after ==
                IF item.field = "status"
                THEN IF item.toString = "In Progress"
                     THEN [issue_dict EXCEPT !["Start Date"] = history.created]
                     ELSE IF item.toString = "Done"
                     THEN [issue_dict EXCEPT !["Done Date"] = history.created]
                     ELSE issue_dict
                ELSE issue_dict
         IN for_item(after, history, i + 1)

\* for history in issue.changelog.histories: ... from history number h on
RECURSIVE for_history(_, _, _)
for_history(issue_dict, histories, h) ==
    IF h > Len(histories) \/ stop_checking_history(issue_dict) THEN issue_dict
    ELSE for_history(for_item(issue_dict, histories[h], 1), histories, h + 1)

\* the row read_dev_ticket_data builds for one issue
issue_row(issue) ==
    LET issue_dict == [c \in {"Done Date", "Start Date", "Status"} |->
                          CASE c = "Done Date" -> NaT
                            [] c = "Start Date" -> NaT
                            [] c = "Status" -> issue.status]
    IN IF issue_dict["Status"] # "To Do"
       THEN for_history(issue_dict, issue.histories, 1)
       ELSE issue_dict

\* the items a history may hold: a change of status or of another field
ChangelogItems ==
    {[field |-> "status", toString |-> to] : to \in {"To Do", "In Progress", "Done"}}
    \cup {[field |-> "assignee", toString |-> "In Progress"]}
\* the sequences of 1..n elements of a set
SeqsUpTo(S, lo, n) == UNION {[1..k -> S] : k \in lo..n}
\* the changelogs Jira may deliver: up to MaxHistories histories of up to MaxItems
\* items, the k-th change made at time k, listed oldest first or newest first
Changelogs ==
    UNION {{[h \in 1..Len(items) |-> [created |-> h, items |-> items[h]]],
            [h \in 1..Len(items) |->
                [created |-> Len(items) + 1 - h, items |-> items[Len(items) + 1 - h]]]} :
           items \in SeqsUpTo(SeqsUpTo(ChangelogItems, 1, MaxItems), 0, MaxHistories)}
JiraIssues ==
    {[kind |-> "issue", status |-> status, histories |-> histories] :
        status \in {"To Do", "In Progress", "Done"}, histories \in Changelogs}

\* ------------------------------------------------------ period filter
\* the months the earliest record of a page's table may fall in (min_period of the
\* page body), None for a page that passes no default_start
FilterMinMonths == {RAD_DATE \div DAYS_PER_MONTH + k : k \in 0..2}
\* a pd.Period argument
Period(ordinal) == [kind |-> "Period", ordinal |-> ordinal]

\* Index.get_loc: the 0-based position of a label, KeyError for a label the index lacks
get_loc(options, label) ==
    IF label \in Range(options)
    THEN (CHOOSE i \in DOMAIN options : options[i] = label) - 1
    ELSE -1
\* options[i] for a 0-based position i
iloc(options, i) == options[i + 1]

\* render_period_filter(page_name, interval, default_start, default_end) in a session
\* whose slider values are ss and a PageState whose periods are periods: the slider
\* values and the periods it leaves, and the pair it returns or the error it raises
render_period_filter(interval, default_start, default_end, ss, periods) ==
    LET all_periods == ALL_PERIODS[interval]
        start_default == IF default_start = None THEN all_periods[1] ELSE default_start.ordinal
        end_default == IF default_end = None THEN all_periods[Len(all_periods)]
                       ELSE default_end.ordinal
        options == period_range(start_default, end_default)
        stored == interval \in DOMAIN periods
        lookup_fails == /\ interval \notin DOMAIN ss /\ stored
                        /\ \/ get_loc(options, periods[interval][1]) = -1
                           \/ get_loc(options, periods[interval][2]) = -1
        idx == IF interval \in DOMAIN ss THEN ss[interval]
               ELSE IF stored
                    THEN <<get_loc(options, periods[interval][1]),
                           get_loc(options, periods[interval][2])>>
                    ELSE <<0, Len(options) - 1>>
        ss1 == [k \in DOMAIN ss \cup {interval} |-> IF k = interval THEN idx ELSE ss[k]]
    IN IF lookup_fails
       THEN [session_state |-> ss, periods |-> periods, ret |-> raise("KeyError")]
       ELSE IF idx[1] >= Len(options) \/ idx[2] >= Len(options)
       THEN [session_state |-> ss1, periods |-> periods, ret |-> raise("IndexError")]
       ELSE LET periods1 ==
                   [k \in DOMAIN periods \cup {interval} |->
                       IF k = interval
                       THEN <<iloc(options, idx[1]), iloc(options, idx[2])>>
                       ELSE periods[k]]
            IN [session_state |-> ss1, periods |-> periods1,
                ret |-> [kind |-> "tuple", start |-> periods1[interval][1],
                         end |-> periods1[interval][2], options |-> options]]

\* ------------------------------------------------------------- actions
Pages == {"CAPAs", "Complaints", "AEs", "Audits", "Training", "main"}
\* the months in which the program may be started
NowMonths == {RAD_DATE \div DAYS_PER_MONTH, MaxToday}

capas_vars == <<df_capas, filtered_df_capas>>
complaints_vars == <<df_complaints, filtered_df_complaints_device>>
audits_vars == <<df_audits, dfs_audits, filtered_dfs_audits>>
training_vars == <<df_training_mo, dfs_training>>
clock_vars == <<page, now, ALL_PERIODS>>
ui_vars == <<session_state, settings>>

Init ==
    /\ page \in Pages
    /\ pc = "import"
    /\ now \in NowMonths
    /\ ALL_PERIODS = compute_all_periods(now)
    /\ df_capas = undefined
    /\ filtered_df_capas = undefined
    /\ df_complaints = undefined
    /\ filtered_df_complaints_device = undefined
    /\ df_aes = undefined
    /\ df_audits = undefined
    /\ dfs_audits = undefined
    /\ filtered_dfs_audits = undefined
    /\ df_training_mo = undefined
    /\ dfs_training = undefined
    /\ session_state = <<>>
    /\ settings = [periods |-> <<>>]
    /\ result = Call("", "", None)

\* what a data source may deliver: its error message, or a table of up to n rows
Sources(rows, n) == {str("could not be retrieved")} \cup {DataFrame(t) : t \in TablesOf(rows, n)}
Tables(ts) == {str("could not be retrieved")} \cup {DataFrame(t) : t \in ts}

\* the tables the RA_QA KPIs page is run with
KpiAuditSheets ==
    Tables({{AuditSheetRow(9, <<4, 3>>, <<1, 2>>)},
            {AuditSheetRow(10, <<0, 5>>, <<4, 3>>), AuditSheetRow(12, <<4, 3>>, <<4, 3>>)},
            {AuditSheetRow(9, <<0, 5>>, <<0, 5>>)}})
KpiCapaItems ==
    Tables({{CapaRow("Closed", RAD_DATE, RAD_DATE, "Pass")},
            {CapaRow("Closed", RAD_DATE + DAYS_PER_MONTH, RAD_DATE, "Fail")}})
KpiComplaintRecords ==
    Tables({{ComplaintRow(RAD_DATE - 60, RAD_DATE, "Closed", "ClearCheck")},
            {ComplaintRow(RAD_DATE + DAYS_PER_MONTH - 61, RAD_DATE + DAYS_PER_MONTH,
                          "Closed", "ClearCheck")}})
KpiTrainingSheets ==
    Tables({{TrainingRow(9, "Ann", <<2, 1>>)},
            {TrainingRow(10, "Ann", <<2, 2>>), TrainingRow(12, "Bob", <<0, 0>>)}})

\* pages/CAPAs.py at import: df_capas = read_capa_data()
ImportCAPAsStep(pg, at, then, items) ==
    /\ page = pg /\ pc = at
    /\ \E matrix_items \in items : df_capas' = read_capa_data(matrix_items)
    /\ pc' = then
    /\ UNCHANGED <<clock_vars, ui_vars, filtered_df_capas, complaints_vars, df_aes, audits_vars,
                   training_vars, result>>
ImportCAPAs == ImportCAPAsStep("CAPAs", "import", "run", Sources(CapaRows, MaxRows))

\* the CAPAs page body up to the filters (only when the table was read)
RenderCAPAsFilters ==
    /\ pc = "run" /\ page = "CAPAs" /\ ~isinstance_str(df_capas)
    /\ filtered_df_capas = undefined
    /\ \E selected \in SUBSET get_unique(df_capas, "Effectiveness Verification Status") :
          filtered_df_capas' = render_breakdown_fixed(df_capas, selected)
    /\ UNCHANGED <<clock_vars, ui_vars, pc, df_capas, complaints_vars, df_aes, audits_vars,
                   training_vars, result>>

\* a call made by the body of page pg; a raised exception ends the run
PageCall(pg, fn, interval, value) ==
    /\ pc = "run" /\ page = pg
    /\ result' = Call(fn, interval, value)
    /\ pc' = IF value.kind = "raise" THEN "raised" ELSE "done"
    /\ UNCHANGED <<clock_vars, ui_vars, capas_vars, complaints_vars, df_aes, audits_vars,
                   training_vars>>

CallCtBySubmissionDate ==
    /\ filtered_df_capas # undefined
    /\ \E interval \in Intervals :
          PageCall("CAPAs", "ct_by_submission_date", interval,
                   ct_by_submission_date(interval, TRUE))

CallComputeCapaCommitment ==
    /\ filtered_df_capas # undefined
    /\ \E interval \in Intervals :
          PageCall("CAPAs", "compute_capa_commitment", interval,
                   compute_capa_commitment(interval, TRUE))

CallComputeCapaEffectiveness ==
    /\ filtered_df_capas # undefined
    /\ \E interval \in Intervals :
          PageCall("CAPAs", "compute_capa_effectiveness", interval,
                   compute_capa_effectiveness(interval, TRUE))

\* pages/Complaints.py at import: df_complaints = read_complaints()
ImportComplaintsStep(pg, at, then, sf_records) ==
    /\ page = pg /\ pc = at
    /\ \E records \in sf_records : df_complaints' = read_complaints(records)
    /\ pc' = then
    /\ UNCHANGED <<clock_vars, ui_vars, capas_vars, filtered_df_complaints_device, df_aes,
                   audits_vars, training_vars, result>>
ImportComplaints ==
    ImportComplaintsStep("Complaints", "import", "run", Sources(ComplaintRows, MaxRows))

\* the Complaints page body: the user selects one of the devices of the table
SelectDevice ==
    /\ pc = "run" /\ page = "Complaints" /\ ~isinstance_str(df_complaints)
    /\ filtered_df_complaints_device = undefined
    /\ \E device \in get_unique(df_complaints, "Device Type") :
          filtered_df_complaints_device' =
              DataFrame({r \in df_complaints.rows : r["Device Type"] = device})
    /\ UNCHANGED <<clock_vars, ui_vars, pc, capas_vars, df_complaints, df_aes, audits_vars,
                   training_vars, result>>

CallComputeComplaintCts ==
    /\ filtered_df_complaints_device # undefined
    /\ PageCall("Complaints", "compute_complaint_cts", "",
                dict(compute_complaint_cts))

CallComputeComplaintCommitment ==
    /\ filtered_df_complaints_device # undefined
    /\ \E interval \in Intervals :
          PageCall("Complaints", "compute_complaint_commitment", interval,
                   compute_complaint_commitment(interval, TRUE))

\* pages/AEs.py body: df_aes = read_aes()
ReadAEs ==
    /\ pc = "import" /\ page = "AEs"
    /\ \E res \in Sources(AeRows, MaxRows) : df_aes' = read_aes(res)
    /\ pc' = "run"
    /\ UNCHANGED <<clock_vars, ui_vars, capas_vars, complaints_vars, audits_vars, training_vars,
                   result>>

CallComputeAeCts ==
    /\ ~isinstance_str(df_aes)
    /\ PageCall("AEs", "compute_ae_cts", "", dict(compute_ae_cts))

\* pages/Audits.py at import: df_audits = read_audits(); by_qtr, by_yr =
\* compute_audits_by_qtr_yr(df_audits); dfs_audits = {...}
ImportAuditsStep(pg, at, then, sheets) ==
    /\ page = pg /\ pc = at
    /\ \E sheet \in sheets :
          LET df == read_audits(sheet)
              out == compute_audits_by_qtr_yr(df)
          IN IF out.kind = "raise"
             THEN /\ pc' = "raised"
                  /\ result' = Call("import pages.Audits", "", out)
                  /\ df_audits' = df
                  /\ UNCHANGED dfs_audits
             ELSE /\ pc' = then
                  /\ df_audits' = out.df_audits_mo
                  /\ dfs_audits' =
                        dict([interval_ \in Intervals |->
                                CASE interval_ = "Month" -> out.df_audits_mo
                                  [] interval_ = "Quarter" -> out.by_period[1]
                                  [] interval_ = "Year" -> out.by_period[2]])
                  /\ UNCHANGED result
    /\ UNCHANGED <<clock_vars, ui_vars, capas_vars, complaints_vars, df_aes, filtered_dfs_audits,
                   training_vars>>
ImportAudits ==
    ImportAuditsStep("Audits", "import", "run",
                     Tables({t \in AuditSheets(MaxRows) : TRUE}))

\* the Audits page body: the user selects audit types
SelectAuditTypes ==
    /\ pc = "run" /\ page = "Audits" /\ filtered_dfs_audits = undefined
    /\ \E audit_types \in SUBSET {"Internal", "External"} :
          filtered_dfs_audits' =
              dict([interval_ \in Intervals |->
                      DataFrame({r \in dfs_audits.d[interval_].rows :
                                    r["Type"] \in audit_types})])
    /\ UNCHANGED <<clock_vars, ui_vars, pc, capas_vars, complaints_vars, df_aes, df_audits,
                   dfs_audits, training_vars, result>>

CallComputeAuditCommitment ==
    /\ filtered_dfs_audits # undefined
    /\ \E interval \in Intervals :
          PageCall("Audits", "compute_audit_commitment", interval,
                   compute_audit_commitment(interval, TRUE))

\* pages/Training.py at import: df_training_mo = read_training_data(); dfs_training
\* stays None unless a table was read
ImportTrainingStep(pg, at, then, sheets) ==
    /\ page = pg /\ pc = at
    /\ \E sheet \in sheets :
          LET df == read_training_data(sheet)
              by_period == get_training_by_qtr_yr(df)
          IN /\ df_training_mo' = df
             /\ dfs_training' =
                   IF df.kind = "DataFrame"
                   THEN dict([interval_ \in Intervals |->
                                CASE interval_ = "Month" -> df
                                  [] interval_ = "Quarter" -> by_period[1]
                                  [] interval_ = "Year" -> by_period[2]])
                   ELSE None
    /\ pc' = then
    /\ UNCHANGED <<clock_vars, ui_vars, capas_vars, complaints_vars, df_aes, audits_vars, result>>
ImportTraining ==
    ImportTrainingStep("Training", "import", "run",
                       Tables({t \in TrainingSheets(MaxRows) : TRUE}))

\* the Training page body (only when the table was read)
CallComputeTrainingCommitment ==
    /\ ~isinstance_str(df_training_mo)
    /\ PageCall("Training", "compute_training_commitment", "", compute_training_commitment)

\* RA_QA KPIs.py: the imports of the four page modules, then compute_commitment
MainImportAudits == ImportAuditsStep("main", "import", "import CAPAs", KpiAuditSheets)
MainImportCAPAs == ImportCAPAsStep("main", "import CAPAs", "import Complaints", KpiCapaItems)
MainImportComplaints ==
    ImportComplaintsStep("main", "import Complaints", "import Training", KpiComplaintRecords)
MainImportTraining == ImportTrainingStep("main", "import Training", "run", KpiTrainingSheets)

CallComputeCommitment ==
    \E interval \in Intervals :
        PageCall("main", "compute_commitment", interval, compute_commitment(interval))

Next ==
    \/ ImportCAPAs
    \/ RenderCAPAsFilters
    \/ CallCtBySubmissionDate
    \/ CallComputeCapaCommitment
    \/ CallComputeCapaEffectiveness
    \/ ImportComplaints
    \/ SelectDevice
    \/ CallComputeComplaintCts
    \/ CallComputeComplaintCommitment
    \/ ReadAEs
    \/ CallComputeAeCts
    \/ ImportAudits
    \/ SelectAuditTypes
    \/ CallComputeAuditCommitment
    \/ ImportTraining
    \/ CallComputeTrainingCommitment
    \/ MainImportAudits
    \/ MainImportCAPAs
    \/ MainImportComplaints
    \/ MainImportTraining
    \/ CallComputeCommitment

Spec == Init /\ [][Next]_vars

\* the clock passes into the next month while the server process is up; the modules it
\* has imported stay imported
Tick ==
    /\ pc \notin {"done", "raised"}
    /\ now < MaxToday
    /\ now' = now + 1
    /\ UNCHANGED <<page, pc, ALL_PERIODS, ui_vars, capas_vars, complaints_vars, df_aes, audits_vars,
                   training_vars, result>>

NextClock == Next \/ Tick
SpecClock == Init /\ [][NextClock]_vars

\* the values a period of a plotted series may hold
PlotValues == {NaN, Float(3, 1)}
\* the values of a series of counts or percentages that are all zero where defined
PlotZeroValues == {NaN, Float(0, 1)}
\* the extent of a plotted series: MaxPlotLen periods from the epoch month
PlotMinPeriod == to_period(RAD_DATE, "Month")
PlotMaxPeriod == PlotMinPeriod + MaxPlotLen - 1

\* the series a page may have computed
PlotSeries ==
    [PlotMinPeriod..PlotMaxPeriod -> PlotValues]
    \cup [PlotMinPeriod..PlotMaxPeriod -> PlotZeroValues]

\* a page body calls plot_bar on the series it computed, with a display window the
\* period slider allows
PlotBar ==
    /\ result.fn = "" /\ result.value.kind = "Series"
    /\ \E start \in PlotMinPeriod..PlotMaxPeriod,
          kwargs \in SUBSET {"min_period_msg", "max_period_msg", "missing_as_zero", "is_pct"},
          toggles \in SUBSET {"data", "trendline", "rolling_avg"} :
          \E end \in start..PlotMaxPeriod :
             LET args == PlotArgs(result.value.s, start, end, PlotMinPeriod, PlotMaxPeriod,
                                  kwargs, toggles)
             IN \E fig \in plot_bar(args) :
                   result' = Call("plot_bar", "Month",
                                  [kind |-> "plot", args |-> args, fig |-> fig])
    /\ UNCHANGED <<clock_vars, ui_vars, pc, capas_vars, complaints_vars, df_aes, audits_vars,
                   training_vars>>

\* plot_bar alone: a page has computed a series, any series of the bounds
InitPlot ==
    /\ page = "main"
    /\ pc = "run"
    /\ now = MaxToday
    /\ ALL_PERIODS = compute_all_periods(now)
    /\ df_capas = undefined
    /\ filtered_df_capas = undefined
    /\ df_complaints = undefined
    /\ filtered_df_complaints_device = undefined
    /\ df_aes = undefined
    /\ df_audits = undefined
    /\ dfs_audits = undefined
    /\ filtered_dfs_audits = undefined
    /\ df_training_mo = undefined
    /\ dfs_training = undefined
    /\ session_state = <<>>
    /\ settings = [periods |-> <<>>]
    /\ \E data \in PlotSeries : result = Call("", "Month", Series(data))
NextPlot == PlotBar
SpecPlot == InitPlot /\ [][NextPlot]_vars

\* the arguments a page body passes to render_period_filter: the interval of the radio
\* button, the period of the earliest record of the selected table (or nothing), and
\* an end of the options (or nothing)
FilterIntervals == Intervals
FilterStarts(interval) == {None} \cup {Period(month_to_period(m, interval)) : m \in FilterMinMonths}
FilterEnds(interval) == {None, Period(month_to_period(MaxToday - 1, interval))}

\* one run of the page body up to the return of render_period_filter, in a session
\* whose slider values are ss and with a PageState whose periods are periods
RunPeriodFilter(interval, default_start, default_end, ss, periods) ==
    LET out == render_period_filter(interval, default_start, default_end, ss, periods)
    IN /\ session_state' = out.session_state
       /\ settings' = [periods |-> out.periods]
       /\ result' = Call("render_period_filter", interval,
                         [kind |-> "filter", default_start |-> default_start,
                          default_end |-> default_end, ret |-> out.ret])
       /\ UNCHANGED <<clock_vars, pc, capas_vars, complaints_vars, df_aes, audits_vars,
                      training_vars>>

\* the user picks another interval or another device (another earliest record): the
\* page is rerun with the new arguments
Rerun ==
    \E interval \in FilterIntervals :
        \E default_start \in FilterStarts(interval), default_end \in FilterEnds(interval) :
            RunPeriodFilter(interval, default_start, default_end, session_state,
                            settings.periods)

\* the user moves the slider the last run rendered: Streamlit stores the new positions
\* under the slider's key, calls update_page_state of that run, and reruns the page
MoveSlider ==
    /\ result.fn = "render_period_filter"
    /\ result.value.ret.kind = "tuple"
    /\ LET interval == result.interval
           options == result.value.ret.options
       IN \E start_idx, end_idx \in 0..(Len(options) - 1) :
             /\ start_idx <= end_idx
             /\ RunPeriodFilter(
                    interval, result.value.default_start, result.value.default_end,
                    [k \in DOMAIN session_state \cup {interval} |->
                        IF k = interval THEN <<start_idx, end_idx>> ELSE session_state[k]],
                    [k \in DOMAIN settings.periods \cup {interval} |->
                        IF k = interval
                        THEN <<iloc(options, start_idx), iloc(options, end_idx)>>
                        ELSE settings.periods[k]])

\* another browser session opens the page: its session_state is empty, the Settings
\* object of get_settings (a cached resource of the server) is the one already in use
NewSession ==
    /\ session_state # <<>>
    /\ session_state' = <<>>
    /\ result' = Call("", "", None)
    /\ UNCHANGED <<clock_vars, settings, pc, capas_vars, complaints_vars, df_aes,
                   audits_vars, training_vars>>

\* the period filter alone, on a page whose data was read
InitFilter ==
    /\ page = "Complaints"
    /\ pc = "run"
    /\ now = MaxToday
    /\ ALL_PERIODS = compute_all_periods(now)
    /\ df_capas = undefined
    /\ filtered_df_capas = undefined
    /\ df_complaints = undefined
    /\ filtered_df_complaints_device = undefined
    /\ df_aes = undefined
    /\ df_audits = undefined
    /\ dfs_audits = undefined
    /\ filtered_dfs_audits = undefined
    /\ df_training_mo = undefined
    /\ dfs_training = undefined
    /\ session_state = <<>>
    /\ settings = [periods |-> <<>>]
    /\ result = Call("", "", None)
NextFilter == Rerun \/ MoveSlider \/ NewSession
SpecFilter == InitFilter /\ [][NextFilter]_vars

\* read_dev_ticket_data on one issue of the search result
ReadDevTicketData ==
    /\ result.fn = "" /\ result.value.kind = "issue"
    /\ result' = Call("read_dev_ticket_data", "",
                      [kind |-> "ticket", issue |-> result.value,
                       row |-> issue_row(result.value)])
    /\ UNCHANGED <<clock_vars, ui_vars, pc, capas_vars, complaints_vars, df_aes,
                   audits_vars, training_vars>>

\* the Development Tickets page before it reads its data: Jira holds any issue
InitTickets ==
    /\ page = "Development Tickets"
    /\ pc = "import"
    /\ now = MaxToday
    /\ ALL_PERIODS = compute_all_periods(now)
    /\ df_capas = undefined
    /\ filtered_df_capas = undefined
    /\ df_complaints = undefined
    /\ filtered_df_complaints_device = undefined
    /\ df_aes = undefined
    /\ df_audits = undefined
    /\ dfs_audits = undefined
    /\ filtered_dfs_audits = undefined
    /\ df_training_mo = undefined
    /\ dfs_training = undefined
    /\ session_state = <<>>
    /\ settings = [periods |-> <<>>]
    /\ \E issue \in JiraIssues : result = Call("", "", issue)
NextTickets == ReadDevTicketData
SpecTickets == InitTickets /\ [][NextTickets]_vars

\* ---------------------------------------------------------- properties
\* the canonical range of an interval: every period from the one of RAD_DATE to the
\* one of the month in which the program was started
CanonicalRange(interval) ==
    to_period(RAD_DATE, interval) .. month_to_period(now, interval)
\* the number of the rows whose date falls in period p
RowsIn(rows, date_col, interval, p) ==
    Cardinality({r \in rows : to_period(r[date_col], interval) = p})
\* the series is indexed by exactly the canonical range and holds, for each of its
\* periods, the number of rows dated in it (0 when there is none)
CountsOver(series, rows, date_col, interval) ==
    /\ DOMAIN series = CanonicalRange(interval)
    /\ \A p \in CanonicalRange(interval) : series[p] = RowsIn(rows, date_col, interval, p)

\* C1: the count aggregations (ct_by_submission_date, the totals of
\* compute_complaint_cts, compute_ae_cts) return series whose index is exactly the
\* canonical range of the interval, whatever periods the data holds, and a period
\* without records holds the count 0.
C1_CountsOnCanonicalRange ==
    /\ (pc = "done" /\ result.fn = "ct_by_submission_date") =>
          /\ result.value.kind = "Series"
          /\ CountsOver(result.value.s,
                        {r \in filtered_df_capas.rows : r["Status"] = "Closed"},
                        "Date of Submission", result.interval)
    /\ (pc = "done" /\ result.fn = "compute_complaint_cts") =>
          \A interval \in Intervals, col \in DATE_COLS_Complaint :
              CountsOver(result.value.d[interval][col][1],
                         filtered_df_complaints_device.rows, col, interval)
    /\ (pc = "done" /\ result.fn = "compute_ae_cts") =>
          \A interval \in Intervals :
              CountsOver(result.value.d[interval], df_aes.rows, "Date Received", interval)

\* a CAPA count where one period of the range has closed CAPAs, another has none, and
\* one closed CAPA was submitted outside the range
C1_Witness ==
    /\ pc = "done" /\ result.fn = "ct_by_submission_date"
    /\ \E p, q \in DOMAIN result.value.s : result.value.s[p] > 0 /\ result.value.s[q] = 0
    /\ \E r \in filtered_df_capas.rows :
          /\ r["Status"] = "Closed"
          /\ r["Date of Submission"] # NaT
          /\ to_period(r["Date of Submission"], result.interval) \notin DOMAIN result.value.s

\* the percentage is NaN where the denominator is 0 and a number where it is not
DefinedWhereCounted(series, rows, date_col, interval) ==
    \A p \in DOMAIN series :
        IF RowsIn(rows, date_col, interval, p) = 0
        THEN isna(series[p])
        ELSE series[p].k = "num"

\* C2: compute_complaint_commitment, compute_capa_commitment and
\* compute_capa_effectiveness give NaN (never 0, infinity or an error) for a period
\* whose denominator is 0, and a defined number for a period whose denominator is
\* positive.  The denominator is the number of complaints completed, or of closed
\* CAPAs submitted, in the period.
C2_ZeroDenominatorIsNaN ==
    /\ (pc = "done" /\ result.fn \in {"compute_capa_commitment", "compute_capa_effectiveness"}) =>
          /\ result.value.kind = "Series"
          /\ DOMAIN result.value.s = CanonicalRange(result.interval)
          /\ DefinedWhereCounted(result.value.s,
                                 {r \in filtered_df_capas.rows : r["Status"] = "Closed"},
                                 "Date of Submission", result.interval)
    /\ (pc = "done" /\ result.fn = "compute_complaint_commitment") =>
          /\ result.value.kind = "Series"
          /\ DOMAIN result.value.s = CanonicalRange(result.interval)
          /\ DefinedWhereCounted(result.value.s, filtered_df_complaints_device.rows,
                                 "Completed Date", result.interval)

\* a CAPA commitment with a period without closed CAPAs (NaN) beside a period with
\* some (a number), in a table that also holds an open CAPA submitted on time
C2_Witness ==
    /\ pc = "done" /\ result.fn = "compute_capa_commitment"
    /\ \E p, q \in DOMAIN result.value.s :
          isna(result.value.s[p]) /\ result.value.s[q].k = "num"
    /\ \E r \in filtered_df_capas.rows :
          r["Status"] = "Open" /\ date_le(r["Date of Submission"], r["Due Date"])

\* the rows of a monthly table whose month falls in period p of the interval
InPeriod(rows, interval, p) == {r \in rows : month_to_period(r["Month"], interval) = p}

\* C3: for every interval, compute_training_commitment yields NaN (not 0) for every
\* period of its range in which the summed number of completed trainings is 0, and
\* for every period of its range without training rows.
C3_TrainingNaNWhereNoneCompleted ==
    (pc = "done" /\ result.fn = "compute_training_commitment") =>
        /\ result.value.kind = "dict"
        /\ \A interval \in Intervals : \A p \in DOMAIN result.value.d[interval] :
              sum_col(InPeriod(df_training_mo.rows, interval, p), "# Trainings Completed") = 0
                  => isna(result.value.d[interval][p])

\* the value a series holds for a period; a period the index lacks has no value
missing == [k |-> "missing", n |-> 0, d |-> 1]
ValueAt(series, p) == IF p \in DOMAIN series THEN series[p] ELSE missing

\* C4: compute_audit_commitment gives, for every period with at least one planned
\* audit, 100 x (audits completed in the period) / (audits planned in the period),
\* and NaN for every period with no planned audit, whatever the number completed.
C4_AuditCommitmentFormula ==
    (pc = "done" /\ result.fn = "compute_audit_commitment") =>
        /\ result.value.kind = "Series"
        /\ LET rows == filtered_dfs_audits.d["Month"].rows
           IN \A p \in {month_to_period(r["Month"], result.interval) : r \in rows} :
                LET planned == sum_col(InPeriod(rows, result.interval, p), "Planned")
                    completed == sum_col(InPeriod(rows, result.interval, p), "Completed")
                IN IF planned = 0
                   THEN isna(ValueAt(result.value.s, p))
                   ELSE ValueAt(result.value.s, p) = Float(100 * completed, planned)

\* NaN, or a percentage between 0 and 100
NaNOrPercentage(v) == isna(v) \/ (v.k = "num" /\ le(Float(0, 1), v) /\ le(v, Float(100, 1)))

\* C5: every value of every commitment series (audit, CAPA commitment, CAPA
\* effectiveness, complaint, training) is NaN or a percentage in [0, 100].
C5_CommitmentIsNaNOrPercentage ==
    /\ (pc = "done" /\ result.value.kind = "Series"
        /\ result.fn \in {"compute_audit_commitment", "compute_capa_commitment",
                          "compute_capa_effectiveness", "compute_complaint_commitment"}) =>
          \A p \in DOMAIN result.value.s : NaNOrPercentage(result.value.s[p])
    /\ (pc = "done" /\ result.fn = "compute_training_commitment"
        /\ result.value.kind = "dict") =>
          \A interval \in Intervals : \A p \in DOMAIN result.value.d[interval] :
              NaNOrPercentage(result.value.d[interval][p])

\* C6: when the data source of a category returned an error string, the category's
\* commitment calculator returns None: it neither raises nor computes a series.
C6_UnavailableGivesNone ==
    /\ isinstance_str(df_audits) =>
          /\ ~(pc = "raised" /\ result.fn = "import pages.Audits")
          /\ \A interval \in Intervals : compute_audit_commitment(interval, FALSE) = None
    /\ isinstance_str(df_capas) =>
          \A interval \in Intervals : compute_capa_commitment(interval, FALSE) = None
    /\ isinstance_str(df_complaints) =>
          \A interval \in Intervals : compute_complaint_commitment(interval, FALSE) = None
    /\ isinstance_str(df_training_mo) => compute_training_commitment = None

\* the categories whose data source returned an error when the KPI page was loaded
Unavailable ==
    {c \in Range(Categories) :
        CASE c = "Audits" -> isinstance_str(df_audits)
          [] c = "CAPAs" -> isinstance_str(df_capas)
          [] c = "Complaints" -> isinstance_str(df_complaints)
          [] c = "Training" -> isinstance_str(df_training_mo)}
\* the KPI page has run to its end: compute_commitment returned, or something raised
KpiRunOver == page = "main" /\ pc \in {"done", "raised"}
\* the message names exactly the categories of S, each once
NamesExactly(msg, S) ==
    \A c \in Range(Categories) :
        Cardinality({i \in DOMAIN msg : msg[i] = c}) = (IF c \in S THEN 1 ELSE 0)

\* C7: compute_commitment is all-or-nothing: for every non-empty set S of categories
\* whose data is unavailable (S = {Training} included) the call returns no score but
\* an error message that names exactly the categories of S.
C7_MessageNamesUnavailable ==
    (KpiRunOver /\ Unavailable # {}) =>
        /\ result.fn = "compute_commitment"
        /\ result.value.kind = "str"
        /\ NamesExactly(result.value.msg, Unavailable)

\* the commitment series of a category on the KPI page
CommitmentOf(category, interval) ==
    CASE category = "Audits" -> compute_audit_commitment(interval, FALSE).s
      [] category = "CAPAs" -> compute_capa_commitment(interval, FALSE).s
      [] category = "Complaints" -> compute_complaint_commitment(interval, FALSE).s
      [] category = "Training" -> compute_training_commitment.d[interval]
\* NaN where the series has no value
OrNaN(series, p) == IF p \in DOMAIN series THEN series[p] ELSE NaN
\* 1 + 0.2 x audits + 0.25 x CAPAs + 0.35 x complaints + 0.2 x training
Composite(interval, p) ==
    add(add(add(add(Float(1, 1),
        mul(Float(1, 5), OrNaN(CommitmentOf("Audits", interval), p))),
        mul(Float(1, 4), OrNaN(CommitmentOf("CAPAs", interval), p))),
        mul(Float(7, 20), OrNaN(CommitmentOf("Complaints", interval), p))),
        mul(Float(1, 5), OrNaN(CommitmentOf("Training", interval), p)))
\* the score covers every period of every category, and holds the composite
ScoreIsComposite ==
    /\ DOMAIN result.value.commitment =
          UNION {DOMAIN CommitmentOf(c, result.interval) : c \in Range(Categories)}
    /\ \A p \in DOMAIN result.value.commitment :
          result.value.commitment[p] = Composite(result.interval, p)

\* C8: when the series of all four categories are available, compute_commitment
\* returns, for every period, 1 + the sum over the categories of weight x commitment,
\* with the weights Audits 0.2, CAPAs 0.25, Complaints 0.35, Training 0.2.
C8_ScoreIsWeightedSum ==
    (KpiRunOver /\ Unavailable = {}) =>
        /\ result.fn = "compute_commitment"
        /\ result.value.kind = "tuple"
        /\ ScoreIsComposite

\* the periods at which a series holds a valid value
Valid(series) == {p \in DOMAIN series : ~isna(series[p])}
\* the earliest of them
FirstValid(series) == CHOOSE p \in Valid(series) : \A q \in Valid(series) : p <= q

\* C9: on success compute_commitment returns the period P and category C such that P
\* is the earliest period at which C's series has a valid (non-NaN) value, and P is
\* the latest such earliest valid period among the four categories.
C9_LatestFirstValidPeriod ==
    (KpiRunOver /\ result.fn = "compute_commitment" /\ result.value.kind = "tuple"
     /\ \A c \in Range(Categories) : Valid(CommitmentOf(c, result.interval)) # {}) =>
        /\ result.value.min_period =
              FirstValid(CommitmentOf(result.value.min_period_category, result.interval))
        /\ \A c \in Range(Categories) :
              FirstValid(CommitmentOf(c, result.interval)) <= result.value.min_period

\* ------------------------------------------------- properties of plot_bar
\* a plot_bar call has returned
Plotted == result.fn = "plot_bar"
\* the series as plot_bar shows it: over the extent of the data, zero-filled if asked
PlottedData ==
    LET args == result.value.args
    IN [p \in args.min_period..args.max_period |->
           IF "missing_as_zero" \in args.kwargs /\ isna(args.data[p])
           THEN Float(0, 1) ELSE args.data[p]]
\* the displayed window
Window == result.value.args.start..result.value.args.end
\* a boundary period of the window is known to be incomplete
FirstExcluded ==
    /\ "min_period_msg" \in result.value.args.kwargs
    /\ result.value.args.start = result.value.args.min_period
LastExcluded ==
    /\ "max_period_msg" \in result.value.args.kwargs
    /\ result.value.args.end = result.value.args.max_period
\* the fit window: the displayed window without its excluded boundary periods
FitLo == result.value.args.start + (IF FirstExcluded THEN 1 ELSE 0)
FitHi == result.value.args.end - (IF LastExcluded THEN 1 ELSE 0)
FitWindow == FitLo..FitHi
\* its periods that hold a value
NonMissing == {p \in FitWindow : ~isna(PlottedData[p])}
\* something was drawn, with the trendline toggled on
TrendlineShown ==
    Plotted /\ result.value.fig.text = "" /\ "trendline" \in result.value.args.toggles
\* a trendline was fitted and drawn
TrendlineFitted == Plotted /\ result.value.fig.y_pred # None
\* the largest of the values a set of periods holds in a series; -inf for none
RECURSIVE MaxOver(_, _)
MaxOver(series, periods) ==
    IF periods = {} THEN neg_inf
    ELSE LET p == CHOOSE q \in periods : TRUE
         IN py_max(MaxOver(series, periods \ {p}), series[p])
\* the y-axis scale given by the bars and the rolling average that are shown
ScaleWithoutTrendline ==
    LET fig == result.value.fig
        bars == IF fig.bars = None THEN neg_inf
                ELSE MaxOver(fig.bars.s, DOMAIN fig.bars.s)
        rolling == IF fig.rolling_avg = None THEN neg_inf
                   ELSE MaxOver(fig.rolling_avg.s, DOMAIN fig.rolling_avg.s)
    IN IF "is_pct" \in result.value.args.kwargs THEN Float(100, 1)
       ELSE py_max(bars, rolling)

\* C11: plot_bar fits and draws no trendline when the fit window (the displayed
\* window without its excluded boundary periods) holds fewer than 3 non-NaN values;
\* the y-axis scale then comes from the other values shown.
C11_NoFitBelowThreePoints ==
    (TrendlineShown /\ Cardinality(NonMissing) < 3) =>
        /\ result.value.fig.y_pred = None
        /\ result.value.fig.y_lim = ScaleWithoutTrendline

\* the values of the fit window, by position
FitValues == [i \in 1..(IF FitHi >= FitLo THEN FitHi - FitLo + 1 ELSE 0) |->
                 PlottedData[FitLo + i - 1]]
\* the squared error of the line of params at offset x
SquaredError(params, x) ==
    LET err == sub(FitValues[x + 1], add(mul(params[1], Float(x, 1)), params[2]))
    IN mul(err, err)
RECURSIVE SumSquaredErrors(_, _)
SumSquaredErrors(params, offsets) ==
    IF offsets = {} THEN Float(0, 1)
    ELSE LET x == CHOOSE o \in offsets : TRUE
         IN add(SquaredError(params, x), SumSquaredErrors(params, offsets \ {x}))
\* the mean squared error of the line over the offsets whose value is not NaN
MeanSquaredError(params) ==
    LET offsets == {i - 1 : i \in {j \in DOMAIN FitValues : ~isna(FitValues[j])}}
    IN truediv(SumSquaredErrors(params, offsets), Float(Cardinality(offsets), 1))
\* (a, b) has b >= 0 and no pair with b >= 0 has a smaller error
BestFit(params) ==
    /\ le(Float(0, 1), params[2])
    /\ \A other \in Params :
          le(Float(0, 1), other[2]) => ~gt(MeanSquaredError(params), MeanSquaredError(other))
\* the bounds the predictions are clipped to
Clipped(v) ==
    IF "is_pct" \in result.value.args.kwargs
    THEN (IF gt(Float(0, 1), v) THEN Float(0, 1)
          ELSE IF gt(v, Float(100, 1)) THEN Float(100, 1) ELSE v)
    ELSE v

\* C12: for a window of n values compute_trendline returns pred_before + n +
\* pred_after predictions, in order, for the consecutive offsets -pred_before, ...,
\* n - 1 + pred_after, each the (clipped) value a * offset + b of one pair (a, b), and
\* that pair is fitted on exactly the positions whose value is not NaN.
C12_TrendlinePredictions ==
    TrendlineFitted =>
        LET fig == result.value.fig
            n == Len(FitValues)
            a == fig.res_x.x[1]
            b == fig.res_x.x[2]
        IN /\ Len(fig.y_pred.v) = fig.pred_before + n + fig.pred_after
           /\ \A i \in 1..Len(fig.y_pred.v) :
                 fig.y_pred.v[i] =
                     Clipped(add(mul(a, Float(i - 1 - fig.pred_before, 1)), b))
           /\ BestFit(fig.res_x.x)

\* a trendline over a window with a NaN inside and both boundary periods predicted
\* but not fitted
C12_Witness ==
    /\ TrendlineFitted
    /\ result.value.fig.pred_before = 1 /\ result.value.fig.pred_after = 1
    /\ \E i \in DOMAIN FitValues : isna(FitValues[i])
    /\ Cardinality(NonMissing) >= 2

\* C13: plot_bar leaves the first displayed period out of the fit exactly when a
\* min_period_msg is given and start = min_period, the last exactly when a
\* max_period_msg is given and end = max_period, and no other period; a trendline
\* that is drawn has a predicted value for every displayed period, the excluded ones
\* included (pred_before = 1, pred_after = 1).
C13_BoundaryExclusion ==
    TrendlineShown =>
        LET fig == result.value.fig
        IN /\ DOMAIN fig.y_values.s = FitWindow
           /\ \A p \in FitWindow : fig.y_values.s[p] = PlottedData[p]
           /\ fig.pred_before = (IF FirstExcluded THEN 1 ELSE 0)
           /\ fig.pred_after = (IF LastExcluded THEN 1 ELSE 0)
           /\ fig.y_pred # None => Len(fig.y_pred.v) = Cardinality(Window)

\* a drawn trendline whose window starts at min_period and ends at max_period, both
\* messages given
C13_Witness ==
    /\ TrendlineFitted
    /\ FirstExcluded /\ LastExcluded
    /\ Cardinality(FitWindow) = Cardinality(Window) - 2

\* the rolling average that is drawn; no value anywhere when none is drawn
RollingAverage ==
    IF result.value.fig.rolling_avg = None THEN <<>> ELSE result.value.fig.rolling_avg.s
\* the series holds a value at p and at the two periods before it
FullWindow(p) ==
    \A q \in {p - 2, p - 1, p} : q \in DOMAIN PlottedData /\ ~isna(PlottedData[q])
\* the arithmetic mean of the three values
MeanOfThree(p) ==
    truediv(add(add(PlottedData[p - 2], PlottedData[p - 1]), PlottedData[p]), Float(3, 1))
\* something was drawn, with the rolling average toggled on
RollingShown ==
    Plotted /\ result.value.fig.text = "" /\ "rolling_avg" \in result.value.args.toggles
\* the period still accumulating data: the last displayed one, when it is max_period
StillOpen(p) == p = result.value.args.end /\ p = result.value.args.max_period

\* C14 (as stated): the rolling average has a value at a displayed period p exactly
\* when the series holds a value at p - 2, p - 1 and p, and the value is their mean.
C14_RollingAverageAsStated ==
    RollingShown =>
        \A p \in Window :
            IF FullWindow(p)
            THEN ValueAt(RollingAverage, p) = MeanOfThree(p)
            ELSE p \notin DOMAIN RollingAverage

\* C14: the rolling average has a value at a displayed period p exactly when the
\* series holds a value at p - 2, p - 1 and p and p is not the period max_period
\* displayed as the last one; the value is the mean of the three.  The first two
\* periods of the series never have a value.
C14_RollingAverageFullWindows ==
    RollingShown =>
        /\ \A p \in Window :
              IF FullWindow(p) /\ ~StillOpen(p)
              THEN ValueAt(RollingAverage, p) = MeanOfThree(p)
              ELSE p \notin DOMAIN RollingAverage
        /\ \A p \in DOMAIN RollingAverage : p >= result.value.args.min_period + 2

\* a rolling average with a value at one period, none at a period whose window holds
\* a NaN, and none at max_period although its window is full
C14_Witness ==
    /\ RollingShown
    /\ result.value.args.end = result.value.args.max_period
    /\ FullWindow(result.value.args.end)
    /\ \E p, q \in Window :
          /\ p \in DOMAIN RollingAverage
          /\ q >= result.value.args.min_period + 2 /\ ~FullWindow(q)

\* ------------------------------------- properties of the period index
\* the number of months of a period of the interval
MonthsPer(interval) ==
    CASE interval = "Month" -> 1 [] interval = "Quarter" -> 3 [] interval = "Year" -> 12
\* the month of RAD_DATE
EpochMonth == RAD_DATE \div DAYS_PER_MONTH
\* the periods run from the one of the epoch to the one of month nowMonth, each the
\* successor of the one before; a single period when the two coincide
RunsFromEpochTo(all_periods, nowMonth) ==
    \A interval \in Intervals :
        LET periods == all_periods[interval]
            first == EpochMonth \div MonthsPer(interval)
            last == nowMonth \div MonthsPer(interval)
        IN /\ Len(periods) >= 1
           /\ periods[1] = first
           /\ periods[Len(periods)] = last
           /\ \A i \in 1..(Len(periods) - 1) : periods[i + 1] = periods[i] + 1
           /\ (first = last => Len(periods) = 1)

\* C15: for each interval compute_all_periods returns an ordered sequence that starts
\* at the period containing RAD_DATE, ends at the period containing the current date,
\* and in which every element is the successor of the one before (no gap, no
\* duplicate); it has exactly one element when the two dates share a period.
C15_AllPeriodsContiguous ==
    /\ RunsFromEpochTo(ALL_PERIODS, now)
    /\ \A nowMonth \in EpochMonth..MaxToday :
          RunsFromEpochTo(compute_all_periods(nowMonth), nowMonth)

\* the program was started in a later year than the epoch: several months, quarters
\* and years
C15_Witness ==
    /\ Len(ALL_PERIODS["Month"]) > Len(ALL_PERIODS["Quarter"])
    /\ Len(ALL_PERIODS["Quarter"]) > 1
    /\ Len(ALL_PERIODS["Year"]) > 1
    /\ pc = "done"

\* C16: the range an aggregation reindexes onto ends at the period containing the
\* time of the call: once the clock has passed into a new month, quarter or year,
\* every aggregation computed afterwards includes the new period.  (The clock stands
\* still once the call has returned, so now is the time of the call.)
C16_RangeEndsAtCallTime ==
    /\ (pc = "done" /\ result.value.kind = "Series"
        /\ result.fn \in {"ct_by_submission_date", "compute_capa_commitment",
                          "compute_capa_effectiveness", "compute_complaint_commitment"}) =>
          now \div MonthsPer(result.interval) \in DOMAIN result.value.s
    /\ (pc = "done" /\ result.fn = "compute_ae_cts") =>
          \A interval \in Intervals :
              now \div MonthsPer(interval) \in DOMAIN result.value.d[interval]

\* ---------------------------------- properties of the complaint counts
\* the categories (columns) of a period table
TableCategories(table) == UNION {DOMAIN table[p] : p \in DOMAIN table}
\* the period of a date, NaT for none
PeriodOf(date, interval) ==
    IF date = NaT THEN NaT ELSE (date \div DAYS_PER_MONTH) \div MonthsPer(interval)
\* compute_complaint_cts has returned
ComplaintCtsDone == pc = "done" /\ result.fn = "compute_complaint_cts"

\* C17: in the table of compute_complaint_cts every cell of a period of the range
\* and an observed category holds the number of matching records, 0 (not NaN) when
\* there is none, for periods absent from the data and for periods present under
\* other categories only.
C17_TableCellsZeroFilled ==
    ComplaintCtsDone =>
        \A interval \in Intervals, col \in DATE_COLS_Complaint :
            LET table == result.value.d[interval][col][2]
            IN \A p \in DOMAIN table : \A c \in DOMAIN table[p] :
                  table[p][c] =
                      Float(Cardinality({r \in filtered_df_complaints_device.rows :
                                            /\ PeriodOf(r[col], interval) = p
                                            /\ r["Complaint Status"] = c}), 1)

\* the sum of the counts a row of the table holds; a NaN cell holds no count
RECURSIVE CellSum(_, _)
CellSum(row, cats) ==
    IF cats = {} THEN 0
    ELSE LET c == CHOOSE x \in cats : TRUE
         IN (IF isna(row[c]) THEN 0 ELSE row[c].n) + CellSum(row, cats \ {c})
\* the total of every period is the sum of its category counts plus the number of
\* its records without a category
TotalsIncludeNullCategory(interval, col) ==
    LET total == result.value.d[interval][col][1]
        table == result.value.d[interval][col][2]
    IN \A p \in DOMAIN total :
          total[p] = CellSum(table[p], DOMAIN table[p])
                     + Cardinality({r \in filtered_df_complaints_device.rows :
                                       /\ PeriodOf(r[col], interval) = p
                                       /\ r["Complaint Status"] = NA})

\* C18 (as stated): a record with a null 'Complaint Status' is counted in the total
\* of its period, total = sum of the category counts + number of null-category
\* records, and the categories of the table are exactly the non-null values observed
\* in the input.
C18_CategoriesAsStated ==
    ComplaintCtsDone =>
        \A interval \in Intervals, col \in DATE_COLS_Complaint :
            /\ TotalsIncludeNullCategory(interval, col)
            /\ TableCategories(result.value.d[interval][col][2]) =
                  {r["Complaint Status"] : r \in filtered_df_complaints_device.rows} \ {NA}

\* C18: a record with a null 'Complaint Status' is counted in the total of its
\* period, total = sum of the category counts (a NaN cell counting nothing) + number
\* of null-category records, and the categories of the table for a date column are
\* exactly the non-null values observed among the records whose date in that column
\* is not null.
C18_NullCategoryCountedInTotal ==
    ComplaintCtsDone =>
        \A interval \in Intervals, col \in DATE_COLS_Complaint :
            /\ TotalsIncludeNullCategory(interval, col)
            /\ TableCategories(result.value.d[interval][col][2]) =
                  {r["Complaint Status"] :
                      r \in {x \in filtered_df_complaints_device.rows : x[col] # NaT}} \ {NA}

\* counts over a table with a record without status completed in the range, and an
\* open complaint (no completion date) whose status no other record has
C18_Witness ==
    /\ ComplaintCtsDone
    /\ \E r \in filtered_df_complaints_device.rows :
          /\ r["Complaint Status"] = NA
          /\ PeriodOf(r["Completed Date"], "Month") \in
                DOMAIN result.value.d["Month"]["Completed Date"][1]
    /\ \E r \in filtered_df_complaints_device.rows :
          /\ r["Completed Date"] = NaT /\ r["Complaint Status"] # NA
          /\ \A x \in filtered_df_complaints_device.rows \ {r} :
                x["Complaint Status"] # r["Complaint Status"]

\* every period column of a table is null exactly where its date column is
LabelsNullWhereDateNull(df, cols) ==
    \A r \in df.rows : \A c \in cols : \A interval \in Intervals :
        (r[replace_Date(c, interval)] = NaT) <=> (r[c] = NaT)

\* C19: a record with a null date in column c has a null period label in every
\* column derived from c and in no other; it is left out of every count bucketed by
\* c, counted in every count bucketed by a date column in which its date is not null,
\* and raises no error.
C19_NullDateNullLabel ==
    /\ df_complaints.kind = "DataFrame" =>
          LabelsNullWhereDateNull(df_complaints, DATE_COLS_Complaint)
    /\ df_capas.kind = "DataFrame" => LabelsNullWhereDateNull(df_capas, DATE_COLS_CAPAs)
    /\ df_aes.kind = "DataFrame" => LabelsNullWhereDateNull(df_aes, {"Date Received"})
    /\ page \in {"Complaints", "CAPAs", "AEs"} => pc # "raised"
    /\ ComplaintCtsDone =>
          \A interval \in Intervals, col \in DATE_COLS_Complaint :
              LET total == result.value.d[interval][col][1]
              IN \A p \in DOMAIN total :
                    total[p] = Cardinality({r \in filtered_df_complaints_device.rows :
                                               r[col] # NaT /\ PeriodOf(r[col], interval) = p})
    /\ (pc = "done" /\ result.fn = "ct_by_submission_date") =>
          \A p \in DOMAIN result.value.s :
              result.value.s[p] =
                  Cardinality({r \in filtered_df_capas.rows :
                                  /\ r["Status"] = "Closed"
                                  /\ r["Date of Submission"] # NaT
                                  /\ PeriodOf(r["Date of Submission"], result.interval) = p})

\* complaint counts over a table with a complaint that has no completion date and
\* was created in the range: counted by creation date
C19_Witness ==
    /\ ComplaintCtsDone
    /\ \E r \in filtered_df_complaints_device.rows :
          /\ r["Completed Date"] = NaT
          /\ r["Completed Month"] = NaT /\ r["Complaint Created Month"] # NaT
          /\ r["Complaint Created Month"] \in
                DOMAIN result.value.d["Month"]["Complaint Created Date"][1]
          /\ result.value.d["Month"]["Complaint Created Date"][1][r["Complaint Created Month"]] = 1
          /\ \A p \in DOMAIN result.value.d["Month"]["Completed Date"][1] :
                result.value.d["Month"]["Completed Date"][1][p] = 0

\* the columns read_audits gives the monthly audit table
AuditColumns == {"Month", "Type", "Planned", "Completed", "Quarter", "Year"}

\* C20: no aggregation changes the table it is given: after compute_audits_by_qtr_yr
\* (and the other aggregations) has returned, the input table has the rows, columns
\* and values it had before the call.
C20_InputTablesUnchanged ==
    (dfs_audits # undefined /\ df_audits.kind = "DataFrame") =>
        /\ \A r \in df_audits.rows :
              /\ DOMAIN r = AuditColumns
              /\ r["Quarter"] = r["Month"] \div 3
              /\ r["Year"] = r["Month"] \div 12
        /\ dfs_audits.d["Month"] = df_audits

\* ------------------------------- properties of the commitment formulas
\* the CAPAs of the rows submitted in period p
SubmittedIn(rows, interval, p) ==
    {r \in rows : PeriodOf(r["Date of Submission"], interval) = p}
\* the CAPAs among them submitted on or before their due date
OnTime(rows) ==
    {r \in rows : r["Due Date"] # NaT /\ r["Date of Submission"] <= r["Due Date"]}
\* the value of every period with at least one CAPA of the rows submitted in it is
\* the percentage of these CAPAs that were submitted on time
PctOnTime(series, rows, interval) ==
    \A p \in DOMAIN series :
        SubmittedIn(rows, interval, p) # {} =>
            series[p] = Float(100 * Cardinality(OnTime(SubmittedIn(rows, interval, p))),
                              Cardinality(SubmittedIn(rows, interval, p)))
CapaCommitmentDone ==
    pc = "done" /\ result.fn = "compute_capa_commitment" /\ result.value.kind = "Series"

\* C21 (as stated): for every period P with at least one CAPA submitted in P the
\* CAPA commitment is 100 x (CAPAs submitted in P with submission date <= due date) /
\* (all CAPAs submitted in P); a CAPA with a null due date is not on time.
C21_CommitmentOverAllCapas ==
    CapaCommitmentDone =>
        PctOnTime(result.value.s, filtered_df_capas.rows, result.interval)

\* C21: for every period P of the range with at least one closed CAPA submitted in
\* P the CAPA commitment is 100 x (closed CAPAs submitted in P with submission date
\* <= due date) / (closed CAPAs submitted in P); a CAPA with a null due date is not
\* on time, and a CAPA that is not closed counts on neither side.
C21_CommitmentOverClosedCapas ==
    CapaCommitmentDone =>
        PctOnTime(result.value.s,
                  {r \in filtered_df_capas.rows : r["Status"] = "Closed"},
                  result.interval)

\* a commitment for a period with a closed CAPA without due date and an open CAPA
\* submitted on time
C21_Witness ==
    /\ CapaCommitmentDone
    /\ \E p \in DOMAIN result.value.s :
          /\ \E r \in SubmittedIn(filtered_df_capas.rows, result.interval, p) :
                r["Status"] = "Closed" /\ r["Due Date"] = NaT
          /\ \E r \in OnTime(SubmittedIn(filtered_df_capas.rows, result.interval, p)) :
                r["Status"] = "Open"
          /\ result.value.s[p] = Float(0, 1)

\* the complaints of the page's table closed in period p
ClosedIn(interval, p) ==
    {r \in filtered_df_complaints_device.rows : PeriodOf(r["Completed Date"], interval) = p}
\* the complaints closed at most 60 days after they were opened
Within60Days(rows) ==
    {r \in rows : /\ r["Complaint Created Date"] # NaT
                  /\ r["Completed Date"] - r["Complaint Created Date"] <= 60}

\* C22: for every period P with at least one complaint closed in P the complaint
\* commitment is 100 x (complaints closed in P at most 60 days after their opening,
\* 60 included) / (complaints closed in P).
C22_ComplaintCommitmentFormula ==
    (pc = "done" /\ result.fn = "compute_complaint_commitment") =>
        /\ result.value.kind = "Series"
        /\ \A p \in DOMAIN result.value.s :
              ClosedIn(result.interval, p) # {} =>
                  result.value.s[p] =
                      Float(100 * Cardinality(Within60Days(ClosedIn(result.interval, p))),
                            Cardinality(ClosedIn(result.interval, p)))

\* a commitment of 50 % for a period with one complaint closed after exactly 60 days
\* and one closed after 61
C22_Witness ==
    /\ pc = "done" /\ result.fn = "compute_complaint_commitment"
    /\ \E p \in DOMAIN result.value.s :
          /\ \E r \in ClosedIn(result.interval, p) :
                r["Completed Date"] - r["Complaint Created Date"] = 60
          /\ \E r \in ClosedIn(result.interval, p) :
                r["Completed Date"] - r["Complaint Created Date"] = 61
          /\ result.value.s[p] = Float(50, 1)

\* --------------------------------------- properties of the period filter
\* the first and last option of the last call of render_period_filter
OptionLo ==
    IF result.value.default_start = None THEN ALL_PERIODS[result.interval][1]
    ELSE result.value.default_start.ordinal
OptionHi ==
    IF result.value.default_end = None
    THEN ALL_PERIODS[result.interval][Len(ALL_PERIODS[result.interval])]
    ELSE result.value.default_end.ordinal

\* C23: after any sequence of reruns in which the interval, the slider position and
\* default_start/default_end change, render_period_filter raises no index or lookup
\* error and returns (start, end) with start <= end, both within the current options
\* [default_start, default_end], equal to the period the PageState holds for the
\* interval.
C23_PeriodFilterInRange ==
    result.fn = "render_period_filter" =>
        /\ result.value.ret.kind = "tuple"
        /\ result.value.ret.start <= result.value.ret.end
        /\ OptionLo <= result.value.ret.start
        /\ result.value.ret.end <= OptionHi
        /\ result.interval \in DOMAIN settings.periods
        /\ settings.periods[result.interval] = <<result.value.ret.start, result.value.ret.end>>

\* every value of the displayed window is zero or missing
WindowHoldsNothing ==
    \A p \in Window : isna(PlottedData[p]) \/ PlottedData[p] = Float(0, 1)
\* the empty plot with the no-data message: no bars, no trendline, no rolling average
EmptyPlot ==
    /\ result.value.fig.text = "No data"
    /\ result.value.fig.bars = None
    /\ result.value.fig.y_pred = None
    /\ result.value.fig.rolling_avg = None

\* C24: plot_bar returns the empty plot with the no-data message, and draws no bars,
\* trendline or rolling average, whenever every value of the series within the
\* displayed window is zero or missing, in any mixture of 0 and NaN.
C24_NoDataForZeroOrMissing ==
    (Plotted /\ WindowHoldsNothing) => EmptyPlot

\* ------------------------------------ properties of the ticket dates
\* the times at which the changelog of the issue read records a change of status to
\* a value
ChangedTo(status) ==
    {h.created : h \in {hh \in Range(result.value.issue.histories) :
                            \E i \in DOMAIN hh.items :
                                hh.items[i] = [field |-> "status", toString |-> status]}}
\* the ticket is done and was set in progress before it was set done
StartedThenDone ==
    /\ result.fn = "read_dev_ticket_data"
    /\ result.value.issue.status = "Done"
    /\ \E t1 \in ChangedTo("In Progress"), t2 \in ChangedTo("Done") : t1 < t2

\* C25: for a ticket whose status is 'Done' and whose changelog holds a change to
\* 'In Progress' followed later by a change to 'Done', Start Date is the time of the
\* change to 'In Progress' and Done Date the time of the change to 'Done' (it is not
\* left empty).
C25_DoneTicketHasBothDates ==
    StartedThenDone =>
        /\ result.value.row["Start Date"] \in ChangedTo("In Progress")
        /\ result.value.row["Done Date"] \in ChangedTo("Done")

\* --------------------------------- further properties of the composite
\* compute_commitment has returned a score
ScoreReturned ==
    KpiRunOver /\ result.fn = "compute_commitment" /\ result.value.kind = "tuple"
\* the category has a number for the period
DefinedAt(category, interval, p) ==
    /\ p \in DOMAIN CommitmentOf(category, interval)
    /\ CommitmentOf(category, interval)[p].k = "num"

\* C26: the composite score is a number at a period exactly when all four category
\* series are defined there; where a category is NaN or has no entry the composite
\* is NaN, never a weighted sum of the remaining categories.
C26_CompositeNeedsAllFour ==
    ScoreReturned =>
        \A p \in DOMAIN result.value.commitment :
            IF \A c \in Range(Categories) : DefinedAt(c, result.interval, p)
            THEN result.value.commitment[p].k = "num"
            ELSE isna(result.value.commitment[p])

\* a score with a number for one period and, for another, NaN although some category
\* is defined there
C26_Witness ==
    /\ ScoreReturned
    /\ \E p, q \in DOMAIN result.value.commitment :
          /\ result.value.commitment[p].k = "num"
          /\ isna(result.value.commitment[q])
          /\ \E c \in Range(Categories) : DefinedAt(c, result.interval, q)

\* ------------------------------- properties across the granularities
\* the sum of a series of counts over a set of its periods
RECURSIVE SumOver(_, _)
SumOver(series, periods) ==
    IF periods = {} THEN 0
    ELSE LET p == CHOOSE q \in periods : TRUE
         IN series[p] + SumOver(series, periods \ {p})
\* every period of the coarser series holds the sum of the months it contains
SumsOfMonths(by_month, coarser, interval) ==
    \A p \in DOMAIN coarser :
        coarser[p] = SumOver(by_month, {m \in DOMAIN by_month : m \div MonthsPer(interval) = p})

\* C27: for the same records and date column the count of every Quarter and of every
\* Year of the range equals the sum of the counts of the Months of the range that
\* the quarter or year contains, the quarter and year of the epoch and of the current
\* date included.
C27_CountsAddUpAcrossGranularities ==
    /\ ComplaintCtsDone =>
          \A interval \in {"Quarter", "Year"}, col \in DATE_COLS_Complaint :
              SumsOfMonths(result.value.d["Month"][col][1],
                           result.value.d[interval][col][1], interval)
    /\ (pc = "done" /\ result.fn = "ct_by_submission_date") =>
          \A interval \in {"Quarter", "Year"} :
              SumsOfMonths(ct_by_submission_date("Month", TRUE).s,
                           ct_by_submission_date(interval, TRUE).s, interval)
    /\ (pc = "done" /\ result.fn = "compute_ae_cts") =>
          \A interval \in {"Quarter", "Year"} :
              SumsOfMonths(result.value.d["Month"], result.value.d[interval], interval)

ClosedSubmitted ==
    {r \in filtered_df_capas.rows : r["Status"] = "Closed" /\ r["Date of Submission"] # NaT}
CtBySubmissionDateDone ==
    pc = "done" /\ result.fn = "ct_by_submission_date" /\ result.value.kind = "Series"

\* C29 (as stated): for every interval the counts of ct_by_submission_date add up
\* to the number of closed CAPAs with a submission date: every such CAPA is counted
\* in exactly one period, whatever its date, before the epoch or after the current
\* period included.
C29_EveryRecordCounted ==
    CtBySubmissionDateDone =>
        SumOver(result.value.s, DOMAIN result.value.s) = Cardinality(ClosedSubmitted)

\* C29: for every interval the counts of ct_by_submission_date add up to the number
\* of closed CAPAs whose submission date falls in a period of the range: each of
\* them is counted in exactly one period, and a CAPA submitted before the first or
\* after the last period of the range is counted in none.
C29_EveryRecordOfTheRangeCounted ==
    CtBySubmissionDateDone =>
        /\ SumOver(result.value.s, DOMAIN result.value.s) =
              Cardinality({r \in ClosedSubmitted :
                              PeriodOf(r["Date of Submission"], result.interval)
                                  \in DOMAIN result.value.s})
        /\ \A r \in ClosedSubmitted :
              LET p == PeriodOf(r["Date of Submission"], result.interval)
              IN p \in DOMAIN result.value.s => result.value.s[p] >= 1

\* counts over a table with a closed CAPA submitted in a period of the range and one
\* submitted outside the range
C29_Witness ==
    /\ CtBySubmissionDateDone
    /\ \E p \in DOMAIN result.value.s : result.value.s[p] = 1
    /\ \E r \in ClosedSubmitted :
          PeriodOf(r["Date of Submission"], result.interval) \notin DOMAIN result.value.s

\* ------------------------------ the composite and the page selections
\* the percentage of a count among a count, NaN for none among none
PctOrNaN(n, of) == IF of = 0 THEN NaN ELSE Float(100 * n, of)
\* the CAPA constituent is computed from all closed CAPAs of the table
CapaPartUnfiltered(interval) ==
    LET part == compute_capa_commitment(interval, FALSE)
        closed == {r \in df_capas.rows : r["Status"] = "Closed"}
    IN /\ part.kind = "Series"
       /\ DOMAIN part.s = Range(ALL_PERIODS[interval])
       /\ \A p \in DOMAIN part.s :
             part.s[p] = PctOrNaN(Cardinality(OnTime(SubmittedIn(closed, interval, p))),
                                  Cardinality(SubmittedIn(closed, interval, p)))
\* the complaint constituent is computed from the complaints of all devices
ComplaintPartUnfiltered(interval) ==
    LET part == compute_complaint_commitment(interval, FALSE)
        closed(p) == {r \in df_complaints.rows : PeriodOf(r["Completed Date"], interval) = p}
    IN /\ part.kind = "Series"
       /\ DOMAIN part.s = Range(ALL_PERIODS[interval])
       /\ \A p \in DOMAIN part.s :
             part.s[p] = PctOrNaN(Cardinality(Within60Days(closed(p))), Cardinality(closed(p)))
\* the audit constituent is computed from the audits of both types
AuditPartUnfiltered(interval) ==
    LET part == compute_audit_commitment(interval, FALSE)
        planned(p) == {r \in dfs_audits.d[interval].rows : r[interval] = p /\ r["Planned"] # 0}
    IN /\ part.kind = "Series"
       /\ DOMAIN part.s = {r[interval] : r \in {x \in dfs_audits.d[interval].rows :
                                                    x["Planned"] # 0}}
       /\ \A p \in DOMAIN part.s :
             part.s[p] = Float(100 * sum_col(planned(p), "Completed"),
                               sum_col(planned(p), "Planned"))

\* C30: the composite score does not depend on the selections made on the pages:
\* whatever CAPA breakdown filter, device or audit types are selected, each
\* constituent compute_commitment takes from these pages (computed with the filter
\* switched off) is, for every interval, a function of the unfiltered table alone.
C30_ScoreIgnoresSelections ==
    \A interval \in Intervals :
        /\ df_capas.kind = "DataFrame" => CapaPartUnfiltered(interval)
        /\ df_complaints.kind = "DataFrame" => ComplaintPartUnfiltered(interval)
        /\ dfs_audits.kind = "dict" => AuditPartUnfiltered(interval)

\* a selection on the CAPAs page that changes the page's own commitment series
C30_Witness ==
    /\ page = "CAPAs" /\ filtered_df_capas # undefined
    /\ filtered_df_capas.rows # df_capas.rows
    /\ compute_capa_commitment("Month", TRUE) # compute_capa_commitment("Month", FALSE)

=============================================================================
